---- MODULE Spec2Model ----
(***************************************************************************)
(* Toronto BikeShare station network (src/script.js, second IIFE, lines    *)
(* 840-2177): trip loading, the aggregation cache built by buildCaches,    *)
(* the node / edge derivation of updateVis, the station geometry, the 3D   *)
(* view and the force layout.                                              *)
(*                                                                         *)
(* Representation.  A station name is a positive integer; the order of the *)
(* integers stands for the ascending order of the names.  0 stands for     *)
(* null and for the empty string (both falsy in the source).  A JavaScript *)
(* Map is a sequence in insertion order: of records {name, start, end} for *)
(* a station map, of pairs <<end station, count>> for a route map.         *)
(***************************************************************************)
EXTENDS Integers, Sequences, FiniteSets, TLC

VARIABLES
    pc,               \* "load" | "build" | "ready": position in the initialisation chain
    allData,          \* state.allData: one {mm, trips} object per file
    bi,               \* number of trips of allData the loop of buildCaches has processed
    stationAgg,       \* stationAgg[mem][mk]: Map(station -> {name, start, end})
    endRoutes,        \* endRoutes[mem][mk][start station]: Map(end station -> count)
    lastTrip,         \* the trip the loop of buildCaches processed last (<<mm, trip>>), <<>> before
    isDetail,         \* state.isDetail
    selectedStation,  \* state.selectedStation
    selectedMember,   \* state.selectedMember
    selectedMonthKey, \* state.selectedMonthKey
    byMonthChecked,   \* byMonthEl.checked
    monthSliderValue, \* monthSliderEl.value
    minRoutePercent,  \* state.minRoutePercent
    minRouteCount,    \* state.minRouteCount
    hideLowNodes,     \* state.hideLowNodes
    colorBlind,       \* state.colorBlind
    nodes,            \* updateVis: the kept nodes (after sort and slice)
    linksRaw,         \* updateVis: the candidate links
    nodesVis,         \* updateVis: the nodes bound to circle.station
    linksView,        \* updateVis: the links bound to line.route-line
    topStartTable,    \* the body of #topStartTable: the no-data row or the station rows
    stationCircles,   \* the circle.station elements of gStations in document order, each
                      \* with the name and the _zCam (<<>> or <<z>>) of its node object
    geoPc,            \* position of ensureProjection: "idle" | "gbfs" | "geocodes" | "done"
    geojson,          \* the boundary document: <<>> (null) or <<polygon>>
    torontoCentroid,  \* state.torontoCentroid: <<>> (undefined) or <<lng, lat>>
    gbfs,             \* the stations array of the GBFS feed as fetched
    geocodes,         \* the array of stations-geocoded.json as fetched
    stationPos,       \* state.stationPos: Map(exact name -> {lat, lng})
    stationPosNorm,   \* state.stationPosNorm: Map(normalized name -> {lat, lng})
    latLng,           \* what getStationLatLng returned last since the stores were written,
                      \* <<>> or <<[name, lat, lng, finite]>>
    mode3d,           \* state.mode3d
    yaw,              \* state.yaw, in milliradians
    pitch,            \* state.pitch, in milliradians
    rotating,         \* the flag `rotating` of the rotation drag
    layout            \* the node objects of the force simulation, in the order of nodesVis:
                      \* {name, x, y} in pixels and pin = <<>> or <<fx, fy>>

cacheVars == <<pc, allData, bi, stationAgg, endRoutes, lastTrip>>
ctlVars == <<isDetail, selectedStation, selectedMember, selectedMonthKey,
             byMonthChecked, monthSliderValue, minRoutePercent, hideLowNodes, colorBlind>>
derivedVars == <<minRouteCount, nodes, linksRaw, nodesVis, linksView, topStartTable>>
visVars == <<derivedVars, stationCircles>>
geoVars == <<geoPc, geojson, torontoCentroid, gbfs, geocodes, stationPos, stationPosNorm,
             latLng>>
rotVars == <<mode3d, yaw, pitch, rotating>>
vars == <<cacheVars, ctlVars, visVars, geoVars, rotVars, layout>>

null == 0

(***************************************************************************)
(* Bounds of the model.                                                    *)
(***************************************************************************)
MaxRows == 3          \* rows over all CSV files of one load

----------------------------------------------------------------------------
(***************************************************************************)
(* Constants of the program.                                               *)
(***************************************************************************)
members == <<"All", "Annual", "Casual">>
months == <<"All", "01", "02", "03", "04", "05", "06", "07", "08", "09", "10", "11", "12">>
NFiles == 12
MAX_NODES == 60
TOP_LINKS_PER_SOURCE == 5

Range(s) == {s[i] : i \in DOMAIN s}
MemberKeys == Range(members)
MonthKeys == Range(months)

\* files[i] is "...2023-<mm>.csv"; loadAllCSVs takes mm from the file name.
FileMM(i) == months[i + 1]

----------------------------------------------------------------------------
(***************************************************************************)
(* loadAllCSVs: cleaning of the raw rows.                                  *)
(***************************************************************************)
\* memberRaw.replace(/\s*Member$/i, '') on the user types the model feeds in.
StripMember(memberRaw) ==
    CASE memberRaw = "Annual Member" -> "Annual"
      [] memberRaw = "Casual Member" -> "Casual"
      [] OTHER -> memberRaw

\* The row passes the two `continue` tests of the loop (a name 'NULL' is
\* modelled by null, like the empty name).
RowValid(row) ==
    /\ row.start # null
    /\ row.end # null
    /\ StripMember(row.user) # ""

CleanRow(row) ==
    LET member == StripMember(row.user)
    IN  [start_station_name |-> row.start,
         end_station_name |-> row.end,
         member_type |-> IF member = "Annual" \/ member = "Casual" THEN member ELSE "Other"]

\* The rows that pass, cleaned, in the order of the file.
CleanRows(rows) ==
    LET valid == SelectSeq(rows, RowValid)
    IN  [i \in 1..Len(valid) |-> CleanRow(valid[i])]

\* results[i] are the rows d3.csv gave for files[i] ([] when the fetch failed).
LoadedData(results) ==
    [i \in 1..NFiles |-> [mm |-> FileMM(i), trips |-> CleanRows(results[i])]]

----------------------------------------------------------------------------
(***************************************************************************)
(* buildCaches.                                                            *)
(***************************************************************************)
EmptyAgg == [mem \in MemberKeys |-> [mk \in MonthKeys |-> <<>>]]
EmptyRoutes == [mem \in MemberKeys |-> [mk \in MonthKeys |-> <<>>]]

\* Position of key `name` in a station map, 0 when absent (map.get(name)).
StationIndex(map, name) ==
    IF \E i \in DOMAIN map : map[i].name = name
    THEN CHOOSE i \in DOMAIN map : map[i].name = name
    ELSE 0

updateStation(map, name, type) ==
    IF name = null THEN map
    ELSE LET found == StationIndex(map, name)
             m1 == IF found = 0
                   THEN Append(map, [name |-> name, start |-> 0, end |-> 0])
                   ELSE map
             i == IF found = 0 THEN Len(m1) ELSE found
         IN  [m1 EXCEPT ![i] =
                 IF type = "start" THEN [@ EXCEPT !.start = @ + 1]
                 ELSE IF type = "end" THEN [@ EXCEPT !.end = @ + 1]
                 ELSE @]

\* A route map Map(end -> count): position of key t, 0 when absent.
RouteIndex(m, t) ==
    IF \E i \in DOMAIN m : m[i][1] = t
    THEN CHOOSE i \in DOMAIN m : m[i][1] = t
    ELSE 0

\* Mutant of RouteIncrement: a route that has a count keeps it.
RouteIncrement_Once(m, t) ==
    LET found == RouteIndex(m, t)
    IN  IF found = 0 THEN Append(m, <<t, 1>>) ELSE m

\* m.set(t, (m.get(t) || 0) + 1)
RouteIncrement(m, t) ==
    LET found == RouteIndex(m, t)
    IN  IF found = 0 THEN Append(m, <<t, 1>>)
        ELSE [m EXCEPT ![found] = <<t, @[2] + 1>>]

\* routes is the object startStation -> Map of one cell, a sequence of
\* <<startStation, Map>>; RoutesOf is routes[s] (<<>> stands for undefined:
\* a Map the code creates always receives an entry at once).
RoutesIndex(routes, s) ==
    IF \E i \in DOMAIN routes : routes[i][1] = s
    THEN CHOOSE i \in DOMAIN routes : routes[i][1] = s
    ELSE 0

RoutesOf(routes, s) ==
    LET found == RoutesIndex(routes, s)
    IN  IF found = 0 THEN <<>> ELSE routes[found][2]

\* if (!routes[s]) routes[s] = new Map(); routes[s].set(t, (get(t) || 0) + 1)
RoutesIncrement(routes, s, t) ==
    LET found == RoutesIndex(routes, s)
    IN  IF found = 0 THEN Append(routes, <<s, <<<<t, 1>>>>>>)
        ELSE [routes EXCEPT ![found] = <<s, RouteIncrement(@[2], t)>>]

\* Mutant of applyMembers: every trip is also filed under its own member type.
applyMembers_Typed(trip) == <<"All", IF trip.member_type = "Casual" THEN "Casual" ELSE "Annual">>

applyMembers(trip) ==
    LET mt == IF trip.member_type = "Annual" THEN "Annual"
              ELSE IF trip.member_type = "Casual" THEN "Casual" ELSE "Other"
    IN  IF mt = "Other" THEN <<"All">> ELSE <<"All", mt>>

\* Mutant of ApplyMember: the specific-month station map is not updated.
ApplyMember_NoMonth(cache, mem, mm, trip) ==
    LET s == trip.start_station_name
        e == trip.end_station_name
        agg == cache.stationAgg
        aggAll == updateStation(updateStation(agg[mem]["All"], s, "start"), e, "end")
        er == cache.endRoutes
        er1 == [er EXCEPT ![mem]["All"] = RoutesIncrement(@, s, e)]
        er2 == [er1 EXCEPT ![mem][mm] = RoutesIncrement(@, s, e)]
    IN  [stationAgg |-> [agg EXCEPT ![mem]["All"] = aggAll], endRoutes |-> er2]

\* One pass of the body of `for (const mem of applyMembers)`.
ApplyMember(cache, mem, mm, trip) ==
    LET s == trip.start_station_name
        e == trip.end_station_name
        agg == cache.stationAgg
        aggAll == updateStation(updateStation(agg[mem]["All"], s, "start"), e, "end")
        agg1 == [agg EXCEPT ![mem]["All"] = aggAll]
        aggMonth == updateStation(updateStation(agg1[mem][mm], s, "start"), e, "end")
        agg2 == [agg1 EXCEPT ![mem][mm] = aggMonth]
        er == cache.endRoutes
        er1 == [er EXCEPT ![mem]["All"] = RoutesIncrement(@, s, e)]
        er2 == [er1 EXCEPT ![mem][mm] = RoutesIncrement(@, s, e)]
    IN  [stationAgg |-> agg2, endRoutes |-> er2]

RECURSIVE ApplyMembers(_, _, _, _)
ApplyMembers(cache, mems, mm, trip) ==
    IF mems = <<>> THEN cache
    ELSE ApplyMembers(ApplyMember(cache, Head(mems), mm, trip), Tail(mems), mm, trip)

\* The body of `for (const trip of monthObj.trips)`.
BuildTrip(cache, mm, trip) == ApplyMembers(cache, applyMembers(trip), mm, trip)

\* The trips of allData in the order the two nested loops visit them, each
\* paired with the mm of its month object.
RECURSIVE FlatTrips(_, _)
FlatTrips(data, i) ==
    IF i > Len(data) THEN <<>>
    ELSE [k \in 1..Len(data[i].trips) |-> <<data[i].mm, data[i].trips[k]>>]
         \o FlatTrips(data, i + 1)

----------------------------------------------------------------------------
(***************************************************************************)
(* Array.prototype.sort with the comparator (a, b) => b.key - a.key: a     *)
(* stable sort in descending key order.  The argument is a sequence of     *)
(* <<key, item>>; SortSeq moves an element in front of its predecessor     *)
(* only while the predecessor's key is strictly smaller, so equal keys     *)
(* keep their order, as the stable sort of the engine does.                *)
(***************************************************************************)
SortDesc(ps) == SortSeq(ps, LAMBDA a, b : a[1] > b[1])

Items(ps) == [i \in DOMAIN ps |-> ps[i][2]]

\* arr.slice(0, n)
Slice(arr, n) == SubSeq(arr, 1, IF Len(arr) < n THEN Len(arr) ELSE n)

\* values.sort((a, b) => a - b)
SortAsc(values) == SortSeq(values, LAMBDA a, b : a < b)

\* Mutant of quantileSortedFloor: the rank is counted from the largest value.
quantileSortedFloor_FromTop(values, percent) ==
    LET n == Len(values)
    IN  IF n = 0 THEN 0
        ELSE IF percent <= 0 \/ n < 2 THEN values[n]
        ELSE IF percent >= 100 THEN values[1]
        ELSE LET i100 == (n - 1) * (100 - percent)
                 i0 == i100 \div 100
                 value0 == values[i0 + 1]
                 value1 == values[i0 + 2]
             IN  value0 + ((value1 - value0) * (i100 % 100)) \div 100

\* Mutant of quantileSortedFloor: at the percentile 100 the threshold lies
\* above the largest value.
quantileSortedFloor_Above(values, percent) ==
    LET n == Len(values)
    IN  IF n = 0 THEN 0
        ELSE IF percent >= 100 THEN values[n] + 1
        ELSE IF percent <= 0 \/ n < 2 THEN values[1]
        ELSE LET i100 == (n - 1) * percent
                 i0 == i100 \div 100
                 value0 == values[i0 + 1]
                 value1 == values[i0 + 2]
             IN  value0 + ((value1 - value0) * (i100 % 100)) \div 100

(***************************************************************************)
(* Math.floor(d3.quantileSorted(values, percent / 100) || 0) for ascending *)
(* non-negative integer values and an integer percent: d3-array's          *)
(* quantileSorted interpolates linearly between the two values next to the *)
(* rank i = (n - 1) * p.  Exact arithmetic stands for the doubles.         *)
(***************************************************************************)
quantileSortedFloor(values, percent) ==
    LET n == Len(values)
    IN  IF n = 0 THEN 0
        ELSE IF percent <= 0 \/ n < 2 THEN values[1]
        ELSE IF percent >= 100 THEN values[n]
        ELSE LET i100 == (n - 1) * percent
                 i0 == i100 \div 100
                 value0 == values[i0 + 1]
                 value1 == values[i0 + 2]
             IN  value0 + ((value1 - value0) * (i100 % 100)) \div 100

----------------------------------------------------------------------------
(***************************************************************************)
(* updateVis: the derivation of the visible nodes and links.               *)
(***************************************************************************)
\* The node objects of a station map, each paired with its sort key.
NodePairs(aggMap) ==
    [i \in DOMAIN aggMap |->
        <<aggMap[i].start + aggMap[i].end,
          [name |-> aggMap[i].name, start |-> aggMap[i].start, end |-> aggMap[i].end,
           total |-> aggMap[i].start + aggMap[i].end]>>]

\* Mutant of KeptNodes: the sorted list is not cut.
KeptNodes_NoCap(aggMap) == Items(SortDesc(NodePairs(aggMap)))

\* Mutant of KeptNodes: stations of equal total are ordered by name.
KeptNodes_ByName(aggMap) ==
    Slice(Items(SortSeq(NodePairs(aggMap),
                        LAMBDA a, b : a[1] > b[1] \/ (a[1] = b[1] /\ a[2].name < b[2].name))),
          MAX_NODES)

\* Array.from(aggMap.values()).map(...), sorted by total and cut to MAX_NODES.
KeptNodes(aggMap) == Slice(Items(SortDesc(NodePairs(aggMap))), MAX_NODES)

NodeNames(ns) == {ns[i].name : i \in DOMAIN ns}

\* Mutant of RankedRoutes: the entries are left in insertion order.
RankedRoutes_Unsorted(m) == m

\* Array.from(m.entries()).sort((a, b) => b[1] - a[1])
RankedRoutes(m) == Items(SortDesc([i \in DOMAIN m |-> <<m[i][2], m[i]>>]))

\* Mutant of LinksFrom: the targets outside the kept set are dropped before
\* the list is cut to TOP_LINKS_PER_SOURCE.
LinksFrom_KeptFirst(routes, src, included, detail, sel) ==
    LET m == RoutesOf(routes, src)
        ranked == SelectSeq(RankedRoutes(m), LAMBDA e : e[1] \in included)
        kept == IF ~(detail /\ sel = src) THEN Slice(ranked, TOP_LINKS_PER_SOURCE) ELSE ranked
    IN  [i \in DOMAIN kept |-> [source |-> src, target |-> kept[i][1], value |-> kept[i][2]]]

\* Mutant of LinksFrom: the targets outside the kept set are not dropped.
LinksFrom_AnyTarget(routes, src, included, detail, sel) ==
    LET m == RoutesOf(routes, src)
        ranked == RankedRoutes(m)
        arr == IF ~(detail /\ sel = src) THEN Slice(ranked, TOP_LINKS_PER_SOURCE) ELSE ranked
    IN  [i \in DOMAIN arr |-> [source |-> src, target |-> arr[i][1], value |-> arr[i][2]]]

\* The links one source contributes: the body of `for (const src of nodes)`.
LinksFrom(routes, src, included, detail, sel) ==
    LET m == RoutesOf(routes, src)
        ranked == RankedRoutes(m)
        arr == IF ~(detail /\ sel = src) THEN Slice(ranked, TOP_LINKS_PER_SOURCE) ELSE ranked
        kept == SelectSeq(arr, LAMBDA e : e[1] \in included)
    IN  [i \in DOMAIN kept |-> [source |-> src, target |-> kept[i][1], value |-> kept[i][2]]]

\* The loop `for (const src of nodes)` over ns[lo..hi].
RECURSIVE LinksRawFrom(_, _, _, _, _, _, _)
LinksRawFrom(routes, ns, lo, hi, included, detail, sel) ==
    IF lo > hi THEN <<>>
    ELSE IF lo = hi THEN LinksFrom(routes, ns[lo].name, included, detail, sel)
    ELSE LinksRawFrom(routes, ns, lo, (lo + hi) \div 2, included, detail, sel)
         \o LinksRawFrom(routes, ns, (lo + hi) \div 2 + 1, hi, included, detail, sel)

LinkEnds(ls) == {ls[i].source : i \in DOMAIN ls} \cup {ls[i].target : i \in DOMAIN ls}

\* The stages of the derivation, each handing its result to the next.
\* Last stage: the links between visible nodes.
DeriveView(ns, raw, thresholdCount, links, nv, detail, hide) ==
    [nodes |-> ns, linksRaw |-> raw, minRouteCount |-> thresholdCount,
     nodesVis |-> nv,
     linksView |-> IF ~detail /\ hide
                   THEN SelectSeq(links, LAMBDA l : l.source \in NodeNames(nv)
                                                    /\ l.target \in NodeNames(nv))
                   ELSE links]

\* Mutant of DeriveNodesVis: the hide flag is applied in the detail view too.
DeriveNodesVis_AlwaysHide(ns, raw, thresholdCount, links, detail, hide) ==
    DeriveView(ns, raw, thresholdCount, links,
               IF hide
               THEN SelectSeq(ns, LAMBDA n : n.name \in LinkEnds(links))
               ELSE ns,
               detail, hide)

\* Mutant of DeriveNodesVis: only the sources of the links are kept.
DeriveNodesVis_SourcesOnly(ns, raw, thresholdCount, links, detail, hide) ==
    DeriveView(ns, raw, thresholdCount, links,
               IF ~detail /\ hide
               THEN SelectSeq(ns, LAMBDA n : n.name \in {links[i].source : i \in DOMAIN links})
               ELSE ns,
               detail, hide)

\* Hide the nodes that no remaining link touches (default view only).
DeriveNodesVis(ns, raw, thresholdCount, links, detail, hide) ==
    DeriveView(ns, raw, thresholdCount, links,
               IF ~detail /\ hide
               THEN SelectSeq(ns, LAMBDA n : n.name \in LinkEnds(links))
               ELSE ns,
               detail, hide)

\* Mutant of DeriveLinks: a link whose count equals the threshold is dropped.
DeriveLinks_Strict(ns, raw, thresholdCount, detail, sel, hide) ==
    DeriveNodesVis(ns, raw, thresholdCount,
                   IF detail /\ sel # null
                   THEN SelectSeq(raw, LAMBDA l : l.source = sel)
                   ELSE SelectSeq(raw, LAMBDA l : l.value > thresholdCount),
                   detail, hide)

\* The popularity filter, applied in the default view only.
DeriveLinks(ns, raw, thresholdCount, detail, sel, hide) ==
    DeriveNodesVis(ns, raw, thresholdCount,
                   IF detail /\ sel # null
                   THEN SelectSeq(raw, LAMBDA l : l.source = sel)
                   ELSE SelectSeq(raw, LAMBDA l : l.value >= thresholdCount),
                   detail, hide)

\* The percentile of the slider mapped to a count.
DeriveThreshold(ns, raw, detail, sel, percent, hide) ==
    DeriveLinks(ns, raw,
                quantileSortedFloor(SortAsc([i \in DOMAIN raw |-> raw[i].value]), percent),
                detail, sel, hide)

DeriveLinksRaw(ns, routes, detail, sel, percent, hide) ==
    DeriveThreshold(ns, LinksRawFrom(routes, ns, 1, Len(ns), NodeNames(ns), detail, sel),
                    detail, sel, percent, hide)

\* What updateVis derives from the cache and the controls.
Derive(agg, er, memberKey, monthKey, detail, sel, percent, hide) ==
    DeriveLinksRaw(KeptNodes(agg[memberKey][monthKey]), er[memberKey][monthKey],
                   detail, sel, percent, hide)

\* d3.forceSimulation gives a node object without coordinates the point of
\* its index on a phyllotaxis spiral, 10 * sqrt(0.5 + i) at the angle
\* i * pi * (3 - sqrt(5)) for the index i from 0; here the first 72 points,
\* rounded to pixels.
Phyllotaxis ==
    << <<7, 0>>, <<-9, 8>>, <<1, -16>>, <<11, 15>>, <<-21, -4>>, <<20, -13>>,
       <<-7, 25>>, <<-13, -24>>, <<27, 10>>, <<-28, 12>>, <<14, -29>>, <<10, 32>>,
       <<-31, -18>>, <<36, -8>>, <<-22, 31>>, <<-5, -39>>, <<31, 26>>, <<-42, 2>>,
       <<30, -30>>, <<-2, 44>>, <<-29, -35>>, <<46, 6>>, <<-39, 27>>, <<11, -47>>,
       <<25, 43>>, <<-48, -15>>, <<47, -22>>, <<-20, 48>>, <<-18, -50>>, <<48, 25>>,
       <<-53, 14>>, <<30, -47>>, <<10, 56>>, <<-46, -35>>, <<59, -5>>, <<-40, 44>>,
       <<0, -60>>, <<41, 45>>, <<-62, -6>>, <<50, -38>>, <<-11, 63>>, <<-34, -55>>,
       <<63, 17>>, <<-59, 30>>, <<23, -63>>, <<25, 62>>, <<-62, -29>>, <<66, -20>>,
       <<-35, 60>>, <<-15, -69>>, <<58, 41>>, <<-71, 9>>, <<47, -55>>, <<3, 73>>,
       <<-52, -53>>, <<74, 4>>, <<-58, 48>>, <<10, -75>>, <<43, 63>>, <<-75, -17>>,
       <<68, -38>>, <<-24, 75>>, <<-33, -72>>, <<73, 31>>, <<-76, 27>>, <<38, -71>>,
       <<20, 79>>, <<-69, -45>>, <<82, -14>>, <<-51, 66>>, <<-7, -84>>, <<62, 58>> >>

\* state.simulation.nodes(nodesVis) (d3.forceSimulation(nodesVis) the first
\* time): the node objects were made by this run of updateVis, so none has
\* x, y, fx or fy, and each gets the initial position of its index.
simulationNodes(nv) ==
    [i \in DOMAIN nv |->
        [name |-> nv[i].name, x |-> Phyllotaxis[i][1], y |-> Phyllotaxis[i][2],
         pin |-> <<>>]]

\* The derived view d becomes the bound data of the next state.
SetVis(d) ==
    /\ nodes' = d.nodes
    /\ linksRaw' = d.linksRaw
    /\ minRouteCount' = d.minRouteCount
    /\ nodesVis' = d.nodesVis
    /\ linksView' = d.linksView

\* updateTopStartTable: the rows of the table (stations with a start, by
\* descending start, the first 25).
TableRows(aggMap) ==
    LET started == SelectSeq(aggMap, LAMBDA d : d.start > 0)
    IN  Slice(Items(SortDesc([i \in DOMAIN started |-> <<started[i].start, started[i]>>])), 25)

\* updateTopStartTable on the selected cell aggMap, called at the end of
\* updateVis: the body is cleared, then holds the row 'No data to display
\* for the current filters.' when no station of the cell has a start, and
\* the station rows otherwise.
updateTopStartTable(aggMap) ==
    IF TableRows(aggMap) = <<>>
    THEN [noData |-> TRUE, rows |-> <<>>]
    ELSE [noData |-> FALSE, rows |-> TableRows(aggMap)]

\* Mutant of joinOrder: the circles that stay keep their place in the
\* document and the entering circles are appended.
joinOrder_Appends(nv) ==
    LET names == [i \in DOMAIN nv |-> nv[i].name]
        staying == SelectSeq(stationCircles, LAMBDA c : c.name \in Range(names))
        entering == SelectSeq(names, LAMBDA n : \A k \in DOMAIN stationCircles :
                                                   stationCircles[k].name # n)
    IN  [i \in DOMAIN staying |-> [name |-> staying[i].name, zCam |-> <<>>]]
        \o [i \in DOMAIN entering |-> [name |-> entering[i], zCam |-> <<>>]]

\* nodeSel.join(...): the circles are bound to nodesVis by name, and
\* selection.join ends with selection.order(), which puts the elements in
\* the document in the order of the data.  The node objects are new and
\* have no _zCam.
joinOrder(nv) == [i \in DOMAIN nv |-> [name |-> nv[i].name, zCam |-> <<>>]]

\* updateVis() run on the state the handler has just written (the primed
\* controls): `if (!state.stationAgg) return` leaves the view as it was.
updateVis ==
    IF pc' # "ready" THEN UNCHANGED <<visVars, layout>>
    ELSE /\ SetVis(Derive(stationAgg', endRoutes', selectedMember', selectedMonthKey',
                          isDetail', selectedStation', minRoutePercent', hideLowNodes'))
         /\ layout' = simulationNodes(nodesVis')
         /\ topStartTable' = updateTopStartTable(stationAgg'[selectedMember'][selectedMonthKey'])
         /\ stationCircles' = joinOrder(nodesVis')

----------------------------------------------------------------------------
(***************************************************************************)
(* Inputs of the model.                                                    *)
(***************************************************************************)
\* The rows a CSV file may hold: <<start, end, user type>> over the stations
\* 1 (A), 2 (B), 3 (C); a row with an empty start name is dropped.
RowKinds ==
    { [start |-> 1, end |-> 2, user |-> "Annual Member"],
      [start |-> 1, end |-> 3, user |-> "Casual Member"],
      [start |-> 2, end |-> 1, user |-> "Annual Member"],
      [start |-> 1, end |-> 3, user |-> "Staff"],
      [start |-> 1, end |-> 3, user |-> "Annual Member"],
      [start |-> 3, end |-> 3, user |-> "Casual Member"],
      [start |-> null, end |-> 2, user |-> "Annual Member"] }

RowSeqs(n) == UNION {[1..k -> RowKinds] : k \in 0..n}

\* The rows split over the first two files: the first k rows in file 1 and
\* the others in file 2; the ten other files hold no row.
Results(rows, k) ==
    [i \in 1..NFiles |->
        IF i = 1 THEN SubSeq(rows, 1, k)
        ELSE IF i = 2 THEN SubSeq(rows, k + 1, Len(rows))
        ELSE <<>>]

Percents == {0, 50, 75, 100}
\* The stations the model clicks on (circles and table links).
ProbeStations == 1..5
SliderMonths == {1, 2}

----------------------------------------------------------------------------
(***************************************************************************)
(* Station geometry: ensureProjection fills the geocode stores and         *)
(* getStationLatLng reads them.  Here a station name is the sequence of    *)
(* its UTF-16 code units.  A coordinate is an integer number of units of   *)
(* 1/9990000 degree, in which every value of the fallback (a multiple of   *)
(* 1/999 of a span given to 0.01 degree) is exact.  The file holds no call *)
(* of ensureProjection; EnsureProjection below is the call a caller would  *)
(* make.                                                                   *)
(***************************************************************************)
MaxFeed == 1          \* entries of the GBFS feed, and of the local geocode list

Deg4(x) == 999 * x    \* x / 10000 degree

minLat == Deg4(435800)
maxLat == Deg4(438500)
minLng == Deg4(-796500)
maxLng == Deg4(-791200)
defaultCentroid == <<Deg4(-793832), Deg4(436532)>>
jitterR == Deg4(100)

\* The names of the model: "Ab", "ab", "a-b", "a b", "é",
\* "Union", "aAgaAXq" (hash -2^31) and "aAgaAXr" (hash -2^31 + 1).
NameAb == <<65, 98>>
Nameab == <<97, 98>>
NameDash == <<97, 45, 98>>
NameSpace == <<97, 32, 98>>
NameEacute == <<233>>
NameUnion == <<85, 110, 105, 111, 110>>
NameMinHash == <<97, 65, 103, 97, 65, 88, 113>>
NameNegHash == <<97, 65, 103, 97, 65, 88, 114>>
GeoNames == {NameAb, Nameab, NameDash, NameSpace, NameEacute, NameUnion,
             NameMinHash, NameNegHash}

\* String.prototype.toLowerCase on a code unit of Basic Latin or Latin-1
toLowerCase(c) ==
    IF c \in 65..90 \/ (c \in 192..222 /\ c # 215) THEN c + 32 ELSE c

\* String.prototype.normalize('NFKD') on one code unit: of the letters of
\* the model only é (233) has a decomposition, e followed by U+0301.
NFKD(c) == IF c = 233 THEN <<101, 769>> ELSE <<c>>

RECURSIVE Decomposed(_)
Decomposed(s) == IF s = <<>> THEN <<>> ELSE NFKD(Head(s)) \o Decomposed(Tail(s))

IsAlnum(c) == c \in 97..122 \/ c \in 48..57
IsSpace(c) == c \in {9, 10, 11, 12, 13, 32, 160}

\* .replace(/[^a-z0-9]+/g, ' '): every maximal run of other characters
\* becomes one space
RECURSIVE NonAlnumToSpace(_, _)
NonAlnumToSpace(s, inRun) ==
    IF s = <<>> THEN <<>>
    ELSE IF IsAlnum(Head(s)) THEN <<Head(s)>> \o NonAlnumToSpace(Tail(s), FALSE)
    ELSE IF inRun THEN NonAlnumToSpace(Tail(s), TRUE)
    ELSE <<32>> \o NonAlnumToSpace(Tail(s), TRUE)

\* String.prototype.trim
RECURSIVE TrimStart(_)
TrimStart(s) == IF s # <<>> /\ IsSpace(Head(s)) THEN TrimStart(Tail(s)) ELSE s

RECURSIVE TrimEnd(_)
TrimEnd(s) ==
    IF s # <<>> /\ IsSpace(s[Len(s)]) THEN TrimEnd(SubSeq(s, 1, Len(s) - 1)) ELSE s

Trim(s) == TrimEnd(TrimStart(s))

\* .replace(/\s+/g, ' ')
RECURSIVE CollapseSpaces(_, _)
CollapseSpaces(s, inRun) ==
    IF s = <<>> THEN <<>>
    ELSE IF ~IsSpace(Head(s)) THEN <<Head(s)>> \o CollapseSpaces(Tail(s), FALSE)
    ELSE IF inRun THEN CollapseSpaces(Tail(s), TRUE)
    ELSE <<32>> \o CollapseSpaces(Tail(s), TRUE)

normalizeName(name) ==
    LET lower == [i \in DOMAIN name |-> toLowerCase(name[i])]
        stripped == SelectSeq(Decomposed(lower), LAMBDA c : c \notin 768..879)
    IN  CollapseSpaces(Trim(NonAlnumToSpace(stripped, FALSE)), FALSE)

\* ((h << 5) - h) + c | 0: 31 * h + c wrapped to a signed 32-bit integer,
\* computed on the 16-bit halves of h so that no product leaves 32 bits.
HashStep(h, c) ==
    LET lo == h % 65536
        hi == (h - lo) \div 65536
        lo2 == 31 * lo + c
        hi2 == (31 * hi + (lo2 \div 65536)) % 65536
    IN  (IF hi2 >= 32768 THEN hi2 - 65536 ELSE hi2) * 65536 + (lo2 % 65536)

\* Array.from(String(name)).reduce(..., 0)
RECURSIVE HashOf(_, _)
HashOf(name, n) == IF n = 0 THEN 0 ELSE HashStep(HashOf(name, n - 1), name[n])

\* hash >> k: the arithmetic shift of a signed 32-bit integer
ShiftRight(h, k) == (h - (h % (2 ^ k))) \div (2 ^ k)

\* Mutant of AbsMod1000: Math.abs taken in 32-bit integers, where the
\* magnitude of -2^31 wraps to -2^31 and % keeps the sign of the dividend.
AbsMod1000_Int32(h) ==
    IF h = -2147483647 - 1 THEN -648
    ELSE IF h >= 0 THEN h % 1000 ELSE (1000 - (h % 1000)) % 1000

\* Math.abs(h) % 1000.  Math.abs works on doubles, so the magnitude of
\* -2^31 is 2^31; it is reduced modulo 1000 without being formed.
AbsMod1000(h) ==
    IF h >= 0 THEN h % 1000 ELSE (1000 - (h % 1000)) % 1000

\* d3.geoContains(geojson, [lng, lat]) for a polygon given as a set of
\* boxes
geoContains(polygon, p) ==
    \E b \in polygon.boxes :
        /\ b.lngLo <= p[1] /\ p[1] <= b.lngHi
        /\ b.latLo <= p[2] /\ p[2] <= b.latHi

Box(latLo, latHi, lngLo, lngHi) ==
    [latLo |-> Deg4(latLo), latHi |-> Deg4(latHi), lngLo |-> Deg4(lngLo), lngHi |-> Deg4(lngHi)]

\* The boundary documents of the model, each with the centroid
\* d3.geoCentroid gives for it: a box over most of the fallback box, a
\* small box around its centroid, and two strips whose centroid lies
\* between them.
Polygons ==
    { [boxes |-> {Box(436000, 438000, -796400, -791200)},
       centroid |-> <<Deg4(-793800), Deg4(437000)>>],
      [boxes |-> {Box(436400, 436700, -793900, -793750)},
       centroid |-> <<Deg4(-793832), Deg4(436532)>>],
      [boxes |-> {Box(435800, 435900, -796500, -791200),
                  Box(438400, 438500, -796500, -791200)},
       centroid |-> <<Deg4(-793850), Deg4(437150)>>] }

\* Map.prototype.get / set on a map held as a function of its keys
MapHas(m, k) == k \in DOMAIN m
MapSet(m, k, v) == [x \in DOMAIN m \cup {k} |-> IF x = k THEN v ELSE m[x]]

\* The deterministic fallback of getStationLatLng
Fallback(name) ==
    LET hash == HashOf(name, Len(name))
        lat == minLat + AbsMod1000(hash) * ((maxLat - minLat) \div 999)
        lng == minLng + AbsMod1000(ShiftRight(hash, 10)) * ((maxLng - minLng) \div 999)
        c == IF torontoCentroid # <<>> THEN torontoCentroid ELSE defaultCentroid
        jlng == c[1] + (2 * AbsMod1000(ShiftRight(hash, 5)) - 999) * (jitterR \div 999)
        jlat == c[2] + (2 * AbsMod1000(ShiftRight(hash, 11)) - 999) * (jitterR \div 999)
    IN  IF geojson = <<>> \/ geoContains(geojson[1], <<lng, lat>>)
          THEN [lat |-> lat, lng |-> lng, finite |-> TRUE]
        ELSE IF geoContains(geojson[1], <<jlng, jlat>>)
          THEN [lat |-> jlat, lng |-> jlng, finite |-> TRUE]
        ELSE [lat |-> c[2], lng |-> c[1], finite |-> TRUE]

\* Mutant of getStationLatLng: the normalized name is looked up before the
\* exact name.
getStationLatLng_NormFirst(name) ==
    IF MapHas(stationPosNorm, normalizeName(name))
       /\ stationPosNorm[normalizeName(name)].finite
      THEN stationPosNorm[normalizeName(name)]
    ELSE IF MapHas(stationPos, name) /\ stationPos[name].finite THEN stationPos[name]
    ELSE Fallback(name)

getStationLatLng(name) ==
    IF MapHas(stationPos, name) /\ stationPos[name].finite THEN stationPos[name]
    ELSE IF MapHas(stationPosNorm, normalizeName(name))
            /\ stationPosNorm[normalizeName(name)].finite
      THEN stationPosNorm[normalizeName(name)]
    ELSE Fallback(name)

\* The points of the feed and of the local list, which differ
FeedPoints == {<<Deg4(436452), Deg4(-793806)>>, <<Deg4(436700), Deg4(-793900)>>}
LocalPoints == {<<Deg4(436453), Deg4(-793807)>>, <<Deg4(436600), Deg4(-794000)>>}
ListedNames == {NameAb, Nameab}

\* The records of a fetched array: a name with a finite coordinate, or a
\* record whose lat is not a number.
Records(points) ==
    {[name |-> n, lat |-> p[1], lng |-> p[2], finite |-> TRUE] : n \in ListedNames, p \in points}
    \cup {[name |-> Nameab, lat |-> 0, lng |-> 0, finite |-> FALSE]}

Arrays(points) == UNION {[1..n -> Records(points)] : n \in 0..MaxFeed}

\* stations.forEach of the GBFS branch from entry i on
RECURSIVE StoreGbfs(_, _, _)
StoreGbfs(store, stations, i) ==
    IF i > Len(stations) THEN store
    ELSE LET s == stations[i]
             name == Trim(s.name)
             rec == [lat |-> s.lat, lng |-> s.lng, finite |-> TRUE]
         IN  IF name # <<>> /\ s.finite
               THEN StoreGbfs([pos |-> MapSet(store.pos, name, rec),
                               norm |-> MapSet(store.norm, normalizeName(name), rec)],
                              stations, i + 1)
             ELSE StoreGbfs(store, stations, i + 1)

\* arr.forEach of the local geocode branch from entry i on
RECURSIVE StoreGeocodes(_, _, _)
StoreGeocodes(store, arr, i) ==
    IF i > Len(arr) THEN store
    ELSE LET r == arr[i]
             rec == [lat |-> r.lat, lng |-> r.lng, finite |-> TRUE]
         IN  IF r.name # <<>> /\ r.finite
               THEN StoreGeocodes([pos |-> MapSet(store.pos, r.name, rec),
                                   norm |-> MapSet(store.norm, normalizeName(r.name), rec)],
                                  arr, i + 1)
             ELSE StoreGeocodes(store, arr, i + 1)

InitGeo ==
    /\ geoPc = "idle"
    /\ geojson = <<>>
    /\ torontoCentroid = <<>>
    /\ gbfs = <<>>
    /\ geocodes = <<>>
    /\ stationPos = <<>>
    /\ stationPosNorm = <<>>
    /\ latLng = <<>>

\* ensureProjection up to its first await: the boundary document arrives
\* (null when the fetch fails); with a document the projection and the
\* centroid are set.
FetchGeojson ==
    /\ geoPc = "idle"
    /\ \E doc \in {<<>>} \cup {<<p>> : p \in Polygons} :
          /\ geojson' = doc
          /\ torontoCentroid' = IF doc # <<>> THEN doc[1].centroid ELSE torontoCentroid
    /\ geoPc' = "gbfs"
    /\ latLng' = <<>>
    /\ UNCHANGED <<gbfs, geocodes, stationPos, stationPosNorm>>
    /\ UNCHANGED <<cacheVars, ctlVars, visVars, rotVars, layout>>

\* The GBFS station information arrives and is stored under the trimmed
\* name and under its normalized form.
LoadGbfs ==
    /\ geoPc = "gbfs"
    /\ \E stations \in Arrays(FeedPoints) :
          /\ gbfs' = stations
          /\ LET store == StoreGbfs([pos |-> stationPos, norm |-> stationPosNorm], stations, 1)
             IN  stationPos' = store.pos /\ stationPosNorm' = store.norm
    /\ geoPc' = "geocodes"
    /\ latLng' = <<>>
    /\ UNCHANGED <<geojson, torontoCentroid, geocodes>>
    /\ UNCHANGED <<cacheVars, ctlVars, visVars, rotVars, layout>>

\* stations-geocoded.json arrives and is stored under the name and under
\* its normalized form.
LoadGeocodes ==
    /\ geoPc = "geocodes"
    /\ \E arr \in Arrays(LocalPoints) :
          /\ geocodes' = arr
          /\ LET store == StoreGeocodes([pos |-> stationPos, norm |-> stationPosNorm], arr, 1)
             IN  stationPos' = store.pos /\ stationPosNorm' = store.norm
    /\ geoPc' = "done"
    /\ latLng' = <<>>
    /\ UNCHANGED <<geojson, torontoCentroid, gbfs>>
    /\ UNCHANGED <<cacheVars, ctlVars, visVars, rotVars, layout>>

\* A call getStationLatLng(name), as the tooltip of a route makes for the
\* two ends of the route.
CallGetStationLatLng ==
    /\ \E name \in GeoNames :
          LET r == getStationLatLng(name)
          IN  latLng' = <<[name |-> name, lat |-> r.lat, lng |-> r.lng, finite |-> r.finite]>>
    /\ UNCHANGED <<geoPc, geojson, torontoCentroid, gbfs, geocodes, stationPos, stationPosNorm>>
    /\ UNCHANGED <<cacheVars, ctlVars, visVars, rotVars, layout>>

NextGeo == FetchGeojson \/ LoadGbfs \/ LoadGeocodes \/ CallGetStationLatLng

----------------------------------------------------------------------------
(***************************************************************************)
(* Initialisation: loadAllCSVs().then(buildCaches ... updateVis).          *)
(***************************************************************************)
InitControls ==
    /\ isDetail = FALSE
    /\ selectedStation = null
    /\ selectedMember = "All"
    /\ selectedMonthKey = "All"
    /\ byMonthChecked = FALSE
    /\ monthSliderValue = 1
    /\ minRoutePercent = 0
    /\ hideLowNodes = FALSE
    /\ colorBlind = FALSE

InitVis ==
    /\ minRouteCount = 0
    /\ nodes = <<>>
    /\ linksRaw = <<>>
    /\ nodesVis = <<>>
    /\ linksView = <<>>
    /\ topStartTable = [noData |-> FALSE, rows |-> <<>>]
    /\ stationCircles = <<>>

InitRot ==
    /\ mode3d = FALSE
    /\ yaw = 0
    /\ pitch = 0
    /\ rotating = FALSE

InitLoad ==
    /\ pc = "load"
    /\ allData = <<>>
    /\ bi = 0
    /\ stationAgg = EmptyAgg
    /\ endRoutes = EmptyRoutes
    /\ lastTrip = <<>>
    /\ InitControls
    /\ InitVis
    /\ InitGeo
    /\ InitRot
    /\ layout = <<>>

\* loadAllCSVs resolves with the rows `results` of the 12 files: state.allData
\* holds the cleaned trips, and the .then callback enters buildCaches.
Loaded(results) ==
    /\ pc = "load"
    /\ allData' = LoadedData(results)
    /\ pc' = "build"
    /\ UNCHANGED <<geoVars, rotVars, layout, bi, stationAgg, endRoutes, lastTrip, ctlVars, visVars>>

LoadAllCSVs ==
    \E rows \in RowSeqs(MaxRows) : \E k \in 0..Len(rows) : Loaded(Results(rows, k))

SetCache(c) ==
    /\ stationAgg' = c.stationAgg
    /\ endRoutes' = c.endRoutes

\* One pass of the loop of buildCaches over the next trip.
BuildStep ==
    /\ pc = "build"
    /\ bi < Len(FlatTrips(allData, 1))
    /\ lastTrip' = FlatTrips(allData, 1)[bi + 1]
    /\ SetCache(BuildTrip([stationAgg |-> stationAgg, endRoutes |-> endRoutes],
                          lastTrip'[1], lastTrip'[2]))
    /\ bi' = bi + 1
    /\ UNCHANGED <<geoVars, rotVars, layout, pc, allData, ctlVars, visVars>>

\* The loop is over: state.stationAgg and state.endRoutes are assigned and
\* the callback goes on to updateTopStartTable, initCanvas and updateVis.
BuildDone ==
    /\ pc = "build"
    /\ bi = Len(FlatTrips(allData, 1))
    /\ pc' = "ready"
    /\ UNCHANGED <<geoVars, rotVars, allData, bi, stationAgg, endRoutes, lastTrip, ctlVars>>
    /\ updateVis

NextBuild == LoadAllCSVs \/ BuildStep \/ BuildDone

SpecBuild == InitLoad /\ [][NextBuild]_vars

----------------------------------------------------------------------------
(***************************************************************************)
(* The view: the state after initialisation and the handlers of the        *)
(* controls.  Each handler ends with updateVis().                          *)
(***************************************************************************)
MaxWeight == 3        \* trips of one route in a data set of the view

Repeat(row, n) == [i \in 1..n |-> row]

\* A data set of the view: w[1] trips A -> B (Annual), w[2] trips A -> C
\* (Casual) and one trip B -> A (Annual); with rev the trips to C come
\* before the trips to B.  The first block of rows is file 1, the others
\* file 2.
ViewResults(w, rev) ==
    LET ab == Repeat([start |-> 1, end |-> 2, user |-> "Annual Member"], w[1])
        ac == Repeat([start |-> 1, end |-> 3, user |-> "Casual Member"], w[2])
        ba == Repeat([start |-> 2, end |-> 1, user |-> "Annual Member"], 1)
    IN  [i \in 1..NFiles |->
            IF i = 1 THEN (IF rev THEN ac ELSE ab)
            ELSE IF i = 2 THEN (IF rev THEN ab ELSE ac) \o ba
            ELSE <<>>]

LoadViewCSVs ==
    \E w \in [1..2 -> 0..MaxWeight] : \E rev \in BOOLEAN : Loaded(ViewResults(w, rev))

\* The callback of loadAllCSVs().then runs to its end without a handler in
\* between; before it the handlers run on the empty state.
Idle == pc # "build"

\* m.toString().padStart(2, '0') for the slider values 1..12
updateMonthFromSlider(m) == months[m + 1]

\* exitDetailView, as far as the controls go (its updateVis() is repeated
\* by every caller on the same state).
exitDetailView ==
    /\ isDetail' = FALSE
    /\ selectedStation' = null

\* Mutant of goToDetail: the flag is set and the station is not stored.
goToDetail_FlagOnly(stationName) ==
    /\ isDetail' = TRUE
    /\ selectedStation' = selectedStation

\* goToDetail(stationName)
goToDetail(stationName) ==
    /\ isDetail' = TRUE
    /\ selectedStation' = stationName

\* if (state.isDetail) exitDetailView();
ExitIfDetail ==
    IF isDetail THEN exitDetailView ELSE UNCHANGED <<isDetail, selectedStation>>

ByMonthChange ==
    /\ Idle
    /\ byMonthChecked' = ~byMonthChecked
    /\ selectedMonthKey' = IF ~byMonthChecked' THEN "All"
                           ELSE updateMonthFromSlider(monthSliderValue)
    /\ ExitIfDetail
    /\ UNCHANGED <<geoVars, colorBlind, rotVars, cacheVars, selectedMember, monthSliderValue, minRoutePercent, hideLowNodes>>
    /\ updateVis

\* The slider is disabled while the By Month box is unchecked.
MonthSliderInput ==
    /\ Idle
    /\ byMonthChecked
    /\ \E m \in SliderMonths \ {monthSliderValue} :
          /\ monthSliderValue' = m
          /\ selectedMonthKey' = updateMonthFromSlider(m)
    /\ ExitIfDetail
    /\ UNCHANGED <<geoVars, colorBlind, rotVars, cacheVars, selectedMember, byMonthChecked, minRoutePercent, hideLowNodes>>
    /\ updateVis

\* Mutant of MemberChange: the handler does not leave the detail view.
MemberChange_StaysInDetail ==
    /\ Idle
    /\ \E v \in MemberKeys \ {selectedMember} : selectedMember' = v
    /\ UNCHANGED <<geoVars, colorBlind, rotVars, cacheVars, isDetail, selectedStation, selectedMonthKey, byMonthChecked,
                   monthSliderValue, minRoutePercent, hideLowNodes>>
    /\ updateVis

MemberChange ==
    /\ Idle
    /\ \E v \in MemberKeys \ {selectedMember} : selectedMember' = v
    /\ ExitIfDetail
    /\ UNCHANGED <<geoVars, colorBlind, rotVars, cacheVars, selectedMonthKey, byMonthChecked, monthSliderValue,
                   minRoutePercent, hideLowNodes>>
    /\ updateVis

MinRouteSliderInput ==
    /\ Idle
    /\ \E p \in Percents \ {minRoutePercent} : minRoutePercent' = p
    /\ UNCHANGED <<geoVars, colorBlind, rotVars, cacheVars, isDetail, selectedStation, selectedMember, selectedMonthKey,
                   byMonthChecked, monthSliderValue, hideLowNodes>>
    /\ updateVis

HideLowNodesChange ==
    /\ Idle
    /\ hideLowNodes' = ~hideLowNodes
    /\ ExitIfDetail
    /\ UNCHANGED <<geoVars, colorBlind, rotVars, cacheVars, selectedMember, selectedMonthKey, byMonthChecked,
                   monthSliderValue, minRoutePercent>>
    /\ updateVis

\* Mutant of ColorBlindChange: the handler leaves the detail view.
ColorBlindChange_Exits ==
    /\ Idle
    /\ colorBlind' = ~colorBlind
    /\ ExitIfDetail
    /\ UNCHANGED <<geoVars, rotVars, cacheVars, selectedMember, selectedMonthKey, byMonthChecked,
                   monthSliderValue, minRoutePercent, hideLowNodes>>
    /\ updateVis

\* The change of the colour-blind palette box
ColorBlindChange ==
    /\ Idle
    /\ colorBlind' = ~colorBlind
    /\ UNCHANGED <<geoVars, rotVars, cacheVars, isDetail, selectedStation, selectedMember,
                   selectedMonthKey, byMonthChecked, monthSliderValue, minRoutePercent,
                   hideLowNodes>>
    /\ updateVis

\* The back button is displayed in the detail view only.
BackClick ==
    /\ Idle
    /\ isDetail
    /\ exitDetailView
    /\ UNCHANGED <<geoVars, colorBlind, rotVars, cacheVars, selectedMember, selectedMonthKey, byMonthChecked,
                   monthSliderValue, minRoutePercent, hideLowNodes>>
    /\ updateVis

\* Mutant of StationClick: the route maps of the selected cell are sorted
\* in place.
StationClick_SortsInPlace ==
    /\ pc = "ready"
    /\ \E n \in NodeNames(nodesVis) \cap ProbeStations : goToDetail(n)
    /\ endRoutes' = [endRoutes EXCEPT ![selectedMember][selectedMonthKey] =
                        [i \in DOMAIN @ |-> <<@[i][1], RankedRoutes(@[i][2])>>]]
    /\ UNCHANGED <<geoVars, colorBlind, rotVars, pc, allData, bi, stationAgg, lastTrip, selectedMember,
                   selectedMonthKey, byMonthChecked, monthSliderValue, minRoutePercent,
                   hideLowNodes>>
    /\ updateVis

\* A click on one of the circles bound to nodesVis.
StationClick ==
    /\ pc = "ready"
    /\ \E n \in NodeNames(nodesVis) \cap ProbeStations : goToDetail(n)
    /\ UNCHANGED <<geoVars, colorBlind, rotVars, cacheVars, selectedMember, selectedMonthKey, byMonthChecked,
                   monthSliderValue, minRoutePercent, hideLowNodes>>
    /\ updateVis

\* A click on a station link of the table of top starting stations.
TableLinkClick ==
    /\ pc = "ready"
    /\ \E r \in NodeNames(TableRows(stationAgg[selectedMember][selectedMonthKey]))
                  \cap ProbeStations :
          goToDetail(r)
    /\ UNCHANGED <<geoVars, colorBlind, rotVars, cacheVars, selectedMember, selectedMonthKey, byMonthChecked,
                   monthSliderValue, minRoutePercent, hideLowNodes>>
    /\ updateVis

Next ==
    \/ LoadViewCSVs
    \/ BuildStep
    \/ BuildDone
    \/ ByMonthChange
    \/ MonthSliderInput
    \/ MemberChange
    \/ MinRouteSliderInput
    \/ HideLowNodesChange
    \/ BackClick
    \/ StationClick
    \/ TableLinkClick

Spec == InitLoad /\ [][Next]_vars

----------------------------------------------------------------------------
(***************************************************************************)
(* SpecCap: data sets with MAX_NODES stations and more.  File 2 holds a    *)
(* fixed network: a feeder G (6) with one trip to every filler station     *)
(* 11..10+NFillers (Annual and Casual in turn), then a hub H (4) with one  *)
(* trip to X (5) and one trip to each of the fillers 11..15.  A few rows   *)
(* over A, B, C come before it (file 1) or after it (file 3).              *)
(***************************************************************************)
NFillers == 57        \* filler stations of the network of file 2
MaxExtra == 1         \* rows of file 1 or file 3

FeederRows ==
    [i \in 1..NFillers |->
        [start |-> 6, end |-> 10 + i,
         user |-> IF i % 2 = 0 THEN "Casual Member" ELSE "Annual Member"]]

HubRows ==
    <<[start |-> 4, end |-> 5, user |-> "Annual Member"]>>
    \o [i \in 1..5 |-> [start |-> 4, end |-> 10 + i, user |-> "Annual Member"]]

ExtraKinds ==
    { [start |-> 1, end |-> 2, user |-> "Annual Member"],
      [start |-> 3, end |-> 3, user |-> "Casual Member"] }

CapResults(extra, before) ==
    [i \in 1..NFiles |->
        IF i = 1 THEN (IF before THEN extra ELSE <<>>)
        ELSE IF i = 2 THEN FeederRows \o HubRows
        ELSE IF i = 3 THEN (IF before THEN <<>> ELSE extra)
        ELSE <<>>]

LoadCapCSVs ==
    \E n \in 0..MaxExtra : \E extra \in [1..n -> ExtraKinds] : \E before \in BOOLEAN :
        Loaded(CapResults(extra, before))

NextCap ==
    \/ LoadCapCSVs
    \/ BuildStep
    \/ BuildDone
    \/ MemberChange
    \/ HideLowNodesChange
    \/ BackClick
    \/ StationClick
    \/ TableLinkClick

SpecCap == InitLoad /\ [][NextCap]_vars

\* The geocode stores and their reader
SpecGeo == InitLoad /\ [][NextGeo]_vars

----------------------------------------------------------------------------
(***************************************************************************)
(* The 3D view and the force layout: the 3D toggle, the rotation drag, the *)
(* drag and the double click of a station, the ticks of the simulation and *)
(* the projection of redraw3d.  Lengths are whole pixels, angles whole     *)
(* milliradians, and cosines and sines are given in thousandths; the       *)
(* quotients are rounded down where the source computes in doubles.  The   *)
(* characters of the station n are the digits of n.                        *)
(***************************************************************************)
MaxTurn == 1          \* |yaw| stays within 2 * MaxTurn radians

width == 960
height == 600
ROT_SENS == 5
maxPitch == 1382

\* The differences event.clientX - lastPX, event.clientY - lastPY of a
\* pointermove, and the points event.x, event.y of a station drag
PointerDeltas == {<<300, 300>>, <<-300, -300>>}
DragPoints == {<<700, 450>>}

\* The stations whose circles are dragged and double-clicked
DragStations == {1}

\* The sine of x milliradians in thousandths, by its power series on
\* -pi..pi
RECURSIVE SinTerms(_, _, _)
SinTerms(x, term, k) ==
    IF k > 7 THEN 0
    ELSE LET next == (0 - ((((term * x) \div 1000) * x) \div 1000)) \div ((2 * k) * (2 * k + 1))
         IN  next + SinTerms(x, next, k + 1)

Sin(a) ==
    LET x == ((a + 3142) % 6283) - 3142
    IN  x + SinTerms(x, x, 1)

Cos(a) == Sin(a + 1571)

\* String(name) for the station n
RECURSIVE Digits(_)
Digits(n) == IF n < 10 THEN <<48 + n>> ELSE Digits(n \div 10) \o <<48 + (n % 10)>>

\* (h >>> 0) % 1000
UnsignedMod1000(h) == IF h >= 0 THEN h % 1000 ELSE ((h % 1000) + 296) % 1000

MinWH == IF width < height THEN width ELSE height

\* depthFor(name)
depthFor(name) ==
    IF ~mode3d THEN 0
    ELSE LET s == Digits(name)
             u == UnsignedMod1000(HashOf(s, Len(s)))
             zRange == (MinWH * 6) \div 10
         IN  ((2 * u - 999) * (zRange \div 2)) \div 999

Abs(n) == IF n < 0 THEN 0 - n ELSE n

RECURSIVE GCD(_, _)
GCD(a, b) == IF b = 0 THEN a ELSE GCD(b, a % b)

\* The quotient n / d as a fraction in lowest terms with a positive
\* denominator
Ratio(n, d) ==
    LET g == GCD(Abs(n), Abs(d))
        sg == IF d < 0 THEN -1 ELSE 1
    IN  <<(sg * n) \div g, (sg * d) \div g>>

\* projectXY(x, y, z) under the rotation (yw, pt)
projectXY(x, y, z, yw, pt) ==
    IF ~mode3d THEN [x |-> x, y |-> y, scale |-> <<1, 1>>, zCam |-> 0]
    ELSE LET cx == width \div 2
             cy == height \div 2
             dx == x - cx
             dy == y - cy
             x1 == (dx * Cos(yw) + z * Sin(yw)) \div 1000
             z1 == (z * Cos(yw) - dx * Sin(yw)) \div 1000
             y2 == (dy * Cos(pt) - z1 * Sin(pt)) \div 1000
             z2 == (dy * Sin(pt) + z1 * Cos(pt)) \div 1000
             f == (MinWH * 9) \div 10
             denom == f + z2
         IN  [x |-> IF denom # 0 THEN cx + (x1 * f) \div denom ELSE cx + x1,
              y |-> IF denom # 0 THEN cy + (y2 * f) \div denom ELSE cy + y2,
              scale |-> IF denom # 0 THEN Ratio(f, denom) ELSE <<1, 1>>,
              zCam |-> z2]

\* The node object a link end refers to
NodeOf(lay, name) == lay[CHOOSE i \in DOMAIN lay : lay[i].name = name]

\* The projection of a node object
Projected(d, yw, pt) == projectXY(d.x, d.y, depthFor(d.name), yw, pt)

\* Mutant of EdgeFactor: the two scales are added and not halved.
EdgeFactor_Sum(ps, pt) ==
    IF mode3d
    THEN Ratio(ps.scale[1] * pt.scale[2] + pt.scale[1] * ps.scale[2],
               ps.scale[2] * pt.scale[2])
    ELSE <<1, 1>>

\* redraw3d, lines: the factor (state.mode3d ? scaleAvg : 1) on the stroke
\* width, scaleAvg = (ps.scale + pt.scale) / 2
EdgeFactor(ps, pt) ==
    IF mode3d
    THEN Ratio(ps.scale[1] * pt.scale[2] + pt.scale[1] * ps.scale[2],
               2 * ps.scale[2] * pt.scale[2])
    ELSE <<1, 1>>

\* redraw3d, circles: the factor (state.mode3d ? p.scale : 1) on the radius
NodeFactor(p) == IF mode3d THEN p.scale ELSE <<1, 1>>

\* What redraw3d writes under the rotation (yw, pt): for every circle its
\* centre, the factor on its radius and its camera depth, for every line
\* its ends and the factor on its stroke width.
redraw3d(lay, links, yw, pt) ==
    [circles |-> [i \in DOMAIN lay |->
                    LET p == Projected(lay[i], yw, pt)
                    IN  [name |-> lay[i].name, cx |-> p.x, cy |-> p.y,
                         factor |-> NodeFactor(p), zCam |-> p.zCam]],
     lines |-> [j \in DOMAIN links |->
                    LET ps == Projected(NodeOf(lay, links[j].source), yw, pt)
                        pt2 == Projected(NodeOf(lay, links[j].target), yw, pt)
                    IN  [source |-> links[j].source, target |-> links[j].target,
                         x1 |-> ps.x, y1 |-> ps.y, x2 |-> pt2.x, y2 |-> pt2.y,
                         factor |-> EdgeFactor(ps, pt2)]]]

\* redraw3d, the circles: d._zCam = p.zCam for every circle; then, in the
\* 3D mode, the circles are sorted by descending _zCam (selection.sort is
\* a stable sort of the elements in document order, followed by
\* selection.order()); otherwise they stay in their order.  The lines and
\* the labels are not sorted.
sortStations(circles, lay, yw, pt) ==
    IF mode3d
    THEN Items(SortDesc([i \in DOMAIN circles |->
                            <<Projected(NodeOf(lay, circles[i].name), yw, pt).zCam,
                              [circles[i] EXCEPT
                                  !.zCam = <<Projected(NodeOf(lay, circles[i].name), yw, pt).zCam>>]>>]))
    ELSE [i \in DOMAIN circles |-> [circles[i] EXCEPT !.zCam = <<0>>]]

\* The elements of the drawing in document order, which is the order in
\* which they are painted: the lines of gRoutes, in the order of linksView
\* (the join of the lines ends with selection.order() and nothing sorts
\* them afterwards), then the circles of gStations.  An element is given
\* with the stations whose depth it has.
renderedElements ==
    [j \in DOMAIN linksView |->
        [kind |-> "line", of |-> {linksView[j].source, linksView[j].target}]]
    \o [i \in DOMAIN stationCircles |-> [kind |-> "circle", of |-> {stationCircles[i].name}]]

\* The change of the 3D check box
Mode3dChange ==
    /\ Idle
    /\ mode3d' = ~mode3d
    /\ yaw' = 0
    /\ pitch' = 0
    /\ ExitIfDetail
    /\ UNCHANGED <<geoVars, colorBlind, rotating, cacheVars, selectedMember, selectedMonthKey,
                   byMonthChecked, monthSliderValue, minRoutePercent, hideLowNodes>>
    /\ updateVis

\* pointerdown on the background of the svg
PointerDown ==
    /\ mode3d
    /\ rotating' = TRUE
    /\ UNCHANGED <<cacheVars, ctlVars, visVars, geoVars, mode3d, yaw, pitch, layout>>

\* Mutant of PointerMove: the view is derived and seeded again in place of
\* the redraw.
PointerMove_Updates ==
    /\ rotating
    /\ \E d \in PointerDeltas :
          /\ yaw' = yaw - d[1] * ROT_SENS
          /\ Abs(yaw') <= MaxTurn * 2000
          /\ pitch' = LET pt == pitch + d[2] * ROT_SENS
                      IN  IF pt > maxPitch THEN maxPitch
                          ELSE IF pt < 0 - maxPitch THEN 0 - maxPitch ELSE pt
    /\ UNCHANGED <<cacheVars, ctlVars, geoVars, mode3d, rotating>>
    /\ updateVis

\* Mutant of PointerMove: the pitch is not clamped.
PointerMove_NoClamp ==
    /\ rotating
    /\ \E d \in PointerDeltas :
          /\ yaw' = yaw - d[1] * ROT_SENS
          /\ Abs(yaw') <= MaxTurn * 2000
          /\ pitch' = pitch + d[2] * ROT_SENS
          /\ Abs(pitch') <= MaxTurn * 2000
    /\ stationCircles' = sortStations(stationCircles, layout, yaw', pitch')
    /\ UNCHANGED <<cacheVars, ctlVars, derivedVars, geoVars, mode3d, rotating, layout>>

\* pointermove: the rotation is changed and state.current3dRedraw() draws
\* the node objects as they are
PointerMove ==
    /\ rotating
    /\ \E d \in PointerDeltas :
          /\ yaw' = yaw - d[1] * ROT_SENS
          /\ Abs(yaw') <= MaxTurn * 2000
          /\ pitch' = LET pt == pitch + d[2] * ROT_SENS
                      IN  IF pt > maxPitch THEN maxPitch
                          ELSE IF pt < 0 - maxPitch THEN 0 - maxPitch ELSE pt
    /\ stationCircles' = sortStations(stationCircles, layout, yaw', pitch')
    /\ UNCHANGED <<cacheVars, ctlVars, derivedVars, geoVars, mode3d, rotating, layout>>

\* pointerup, pointerleave
endRotate ==
    /\ rotating
    /\ rotating' = FALSE
    /\ UNCHANGED <<cacheVars, ctlVars, visVars, geoVars, mode3d, yaw, pitch, layout>>

LayoutFrame == UNCHANGED <<cacheVars, ctlVars, derivedVars, geoVars, rotVars>>

\* d3.drag on a circle, 'start': d.fx = d.x; d.fy = d.y
DragStart ==
    /\ pc = "ready"
    /\ \E i \in DOMAIN layout :
          /\ layout[i].name \in DragStations
          /\ layout' = [layout EXCEPT ![i].pin = <<layout[i].x, layout[i].y>>]
    /\ UNCHANGED stationCircles
    /\ LayoutFrame

\* 'drag': d.fx = event.x; d.fy = event.y
DragMove ==
    /\ pc = "ready"
    /\ \E i \in DOMAIN layout : \E p \in DragPoints :
          /\ layout[i].name \in DragStations
          /\ layout[i].pin # <<>>
          /\ layout' = [layout EXCEPT ![i].pin = p]
    /\ UNCHANGED stationCircles
    /\ LayoutFrame

\* 'end': d.fx = d.x; d.fy = d.y
DragEnd ==
    /\ pc = "ready"
    /\ \E i \in DOMAIN layout :
          /\ layout[i].name \in DragStations
          /\ layout[i].pin # <<>>
          /\ layout' = [layout EXCEPT ![i].pin = <<layout[i].x, layout[i].y>>]
    /\ UNCHANGED stationCircles
    /\ LayoutFrame

\* dblclick on a circle: d.fx = null; d.fy = null
DblClick ==
    /\ pc = "ready"
    /\ \E i \in DOMAIN layout :
          /\ layout[i].name \in DragStations
          /\ layout[i].pin # <<>>
          /\ layout' = [layout EXCEPT ![i].pin = <<>>]
    /\ UNCHANGED stationCircles
    /\ LayoutFrame

\* The place the forces give the node of index i: the model takes the
\* spiral moved to the centre of the viewport, where forceCenter holds the
\* mean of the nodes.
Settled(i) == <<width \div 2 + Phyllotaxis[i][1], height \div 2 + Phyllotaxis[i][2]>>

\* The ticks of the simulation up to the next event: a pinned node is put
\* on its pin, every other node is moved by the forces.  redraw3d draws
\* after each tick.
Tick ==
    /\ pc = "ready"
    /\ layout' = [i \in DOMAIN layout |->
                    LET d == layout[i]
                    IN  IF d.pin # <<>> THEN [d EXCEPT !.x = d.pin[1], !.y = d.pin[2]]
                        ELSE [d EXCEPT !.x = Settled(i)[1], !.y = Settled(i)[2]]]
    /\ stationCircles' = sortStations(stationCircles, layout', yaw, pitch)
    /\ LayoutFrame

\* mouseenter on a circle in the overview: the handler reads the routes of
\* the station for the tooltip and sets highlight classes; it writes nothing
\* of the state.
StationMouseEnter ==
    /\ pc = "ready"
    /\ ~isDetail
    /\ nodesVis # <<>>
    /\ UNCHANGED vars

\* The data set of the layout: a round trip 1 -> 1 and two trips 1 -> 2 of
\* annual members, one trip 2 -> 3 of a casual member.
LayoutResults ==
    LET r(s, e, u) == [start |-> s, end |-> e, user |-> u]
    IN  [i \in 1..NFiles |->
            IF i = 1 THEN <<r(1, 1, "Annual Member"), r(1, 2, "Annual Member"),
                            r(1, 2, "Annual Member"), r(2, 3, "Casual Member")>>
            ELSE <<>>]

LoadLayoutCSVs == Loaded(LayoutResults)

NextLayout ==
    \/ LoadLayoutCSVs
    \/ BuildStep
    \/ BuildDone
    \/ MemberChange
    \/ MinRouteSliderInput
    \/ HideLowNodesChange
    \/ BackClick
    \/ StationClick
    \/ StationMouseEnter
    \/ Mode3dChange
    \/ PointerDown
    \/ PointerMove
    \/ endRotate
    \/ DragStart
    \/ DragMove
    \/ DragEnd
    \/ DblClick
    \/ Tick

SpecLayout == InitLoad /\ [][NextLayout]_vars

\* The controls, the clicks and the rotation drag on the data set of the
\* layout
NextControls ==
    \/ LoadLayoutCSVs
    \/ BuildStep
    \/ BuildDone
    \/ ByMonthChange
    \/ MonthSliderInput
    \/ MemberChange
    \/ MinRouteSliderInput
    \/ HideLowNodesChange
    \/ ColorBlindChange
    \/ BackClick
    \/ StationClick
    \/ TableLinkClick
    \/ StationMouseEnter
    \/ Mode3dChange
    \/ PointerDown
    \/ PointerMove
    \/ endRotate

SpecControls == InitLoad /\ [][NextControls]_vars

----------------------------------------------------------------------------
(***************************************************************************)
(* injectSyntheticIfNeeded (defined at 1086-1128; no statement of the      *)
(* program calls it).  The six synthetic stations are the names 100..105.  *)
(***************************************************************************)
demoStart == [name |-> 100]
ends == << [name |-> 101, count |-> 40], [name |-> 102, count |-> 30],
           [name |-> 103, count |-> 20], [name |-> 104, count |-> 15],
           [name |-> 105, count |-> 10] >>

RECURSIVE SyntheticTrips(_)
SyntheticTrips(j) ==
    IF j > Len(ends) THEN <<>>
    ELSE [i \in 1..ends[j].count |->
             [start_station_name |-> demoStart.name,
              end_station_name |-> ends[j].name,
              member_type |-> IF (i - 1) % 2 = 0 THEN "Annual" ELSE "Casual"]]
         \o SyntheticTrips(j + 1)

RECURSIVE TotalTrips(_, _)
TotalTrips(data, i) ==
    IF i > Len(data) THEN 0 ELSE Len(data[i].trips) + TotalTrips(data, i + 1)

injectSyntheticIfNeeded(data) ==
    IF TotalTrips(data, 1) > 0 THEN data
    ELSE Append(data, [mm |-> "09", trips |-> SyntheticTrips(1)])

----------------------------------------------------------------------------
(***************************************************************************)
(* Properties of the aggregation cache (SpecBuild).                        *)
(***************************************************************************)
StartCount(map, name) ==
    IF StationIndex(map, name) = 0 THEN 0 ELSE map[StationIndex(map, name)].start

EndCount(map, name) ==
    IF StationIndex(map, name) = 0 THEN 0 ELSE map[StationIndex(map, name)].end

RouteCount(routes, s, e) ==
    LET m == RoutesOf(routes, s)
    IN  IF RouteIndex(m, e) = 0 THEN 0 ELSE m[RouteIndex(m, e)][2]

RECURSIVE SumOver(_, _)
SumOver(f, S) ==
    IF S = {} THEN 0 ELSE LET x == CHOOSE x \in S : TRUE IN f[x] + SumOver(f, S \ {x})

SpecificMonths == MonthKeys \ {"All"}
StationsSeen == UNION {NodeNames(stationAgg[mem][mk]) : mem \in MemberKeys, mk \in MonthKeys}

\* The trips buildCaches has processed so far, in order.
Processed == SubSeq(FlatTrips(allData, 1), 1, bi)

\* The flat trip ft = <<mm, trip>> belongs to the cell (mem, mk).
Belongs(ft, mem, mk) ==
    /\ mem = "All" \/ mem = ft[2].member_type
    /\ mk = "All" \/ mk = ft[1]

\* The member cells the claim expects a trip of the given type to reach.
ExpectedMembers(member_type) ==
    IF member_type \in {"Annual", "Casual"} THEN {"All", member_type} ELSE {"All"}

\* C1. Member fan-out: when buildCaches processes a trip of month m, the
\* start count of its start station rises by exactly 1 in the cells
\* (All, All), (T, All), (All, m), (T, m) for a trip of type T = Annual or
\* Casual, by exactly 1 in (All, All) and (All, m) alone for a trip of type
\* Other, and by 0 in every other cell; a trip of type Other changes no
\* Annual or Casual cell at all.
C1_MemberFanOut ==
    [][ bi' = bi + 1 =>
          LET mm == lastTrip'[1]
              trip == lastTrip'[2]
              s == trip.start_station_name
          IN  /\ \A mem \in MemberKeys : \A mk \in MonthKeys :
                    StartCount(stationAgg'[mem][mk], s) - StartCount(stationAgg[mem][mk], s)
                      = IF mem \in ExpectedMembers(trip.member_type) /\ mk \in {"All", mm}
                        THEN 1 ELSE 0
              /\ trip.member_type = "Other" =>
                    \A mem \in {"Annual", "Casual"} :
                        /\ stationAgg'[mem] = stationAgg[mem]
                        /\ endRoutes'[mem] = endRoutes[mem] ]_vars

C1_Witness ==
    /\ bi >= 2
    /\ lastTrip # <<>>
    /\ lastTrip[2].member_type = "Other"
    /\ StartCount(stationAgg["All"][lastTrip[1]], lastTrip[2].start_station_name) >= 1
    /\ StartCount(stationAgg["Annual"]["All"], lastTrip[2].start_station_name) >= 1

\* C2. Month fan-out: for every member filter and station, the start count
\* and the end count of the (member, All) cell are the sums of the counts of
\* the 12 cells (member, month); and a trip of month m changes no cell of a
\* specific month other than m.
C2_AllIsSumOfMonths ==
    \A mem \in MemberKeys : \A s \in StationsSeen :
        /\ StartCount(stationAgg[mem]["All"], s)
             = SumOver([mk \in SpecificMonths |-> StartCount(stationAgg[mem][mk], s)],
                       SpecificMonths)
        /\ EndCount(stationAgg[mem]["All"], s)
             = SumOver([mk \in SpecificMonths |-> EndCount(stationAgg[mem][mk], s)],
                       SpecificMonths)

C2_MonthFanOut ==
    /\ []C2_AllIsSumOfMonths
    /\ [][ bi' = bi + 1 =>
             \A mem \in MemberKeys : \A mk \in SpecificMonths \ {lastTrip'[1]} :
                 /\ stationAgg'[mem][mk] = stationAgg[mem][mk]
                 /\ endRoutes'[mem][mk] = endRoutes[mem][mk] ]_vars

C2_Witness ==
    /\ pc = "ready"
    /\ \E s \in StationsSeen :
          /\ StartCount(stationAgg["All"]["01"], s) >= 1
          /\ StartCount(stationAgg["All"]["02"], s) >= 1
          /\ StartCount(stationAgg["All"]["All"], s) >= 3

\* The positions in the trip sequence P of the trips s -> e that belong to
\* the cell.
TripsOf(P, mem, mk, s, e) ==
    {i \in DOMAIN P :
        /\ Belongs(P[i], mem, mk)
        /\ P[i][2].start_station_name = s
        /\ P[i][2].end_station_name = e}

FirstTrip(P, mem, mk, s, e) ==
    LET T == TripsOf(P, mem, mk, s, e) IN CHOOSE i \in T : \A j \in T : i <= j

\* C3. Route ranking: in every cell the count stored for s -> e is the
\* number of trips from s to e that belong to the cell, and the ranked
\* destination list of s is in non-increasing count order, two destinations
\* of equal count being in the order in which the trips of the cell first
\* reached them.
C3_RouteRanking ==
    LET P == Processed
        seen == StationsSeen
    IN  \A mem \in MemberKeys : \A mk \in MonthKeys : \A s \in seen :
            /\ \A e \in seen :
                  RouteCount(endRoutes[mem][mk], s, e) = Cardinality(TripsOf(P, mem, mk, s, e))
            /\ LET ranked == RankedRoutes(RoutesOf(endRoutes[mem][mk], s))
               IN  \A i, j \in DOMAIN ranked :
                      i < j =>
                         /\ ranked[i][2] >= ranked[j][2]
                         /\ ranked[i][2] = ranked[j][2] =>
                               FirstTrip(P, mem, mk, s, ranked[i][1])
                                 < FirstTrip(P, mem, mk, s, ranked[j][1])

\* The stream reached C before B from A, and B ends up ranked first.
C3_Witness ==
    /\ pc = "ready"
    /\ RoutesOf(endRoutes["All"]["All"], 1) = << <<3, 1>>, <<2, 2>> >>
    /\ RankedRoutes(RoutesOf(endRoutes["All"]["All"], 1)) = << <<2, 2>>, <<3, 1>> >>

\* The cell (All, All) holds the hub with its five destinations at
\* 40/30/20/15/10 trips, in that order.
SyntheticInCache ==
    /\ StationIndex(stationAgg["All"]["All"], demoStart.name) # 0
    /\ RankedRoutes(RoutesOf(endRoutes["All"]["All"], demoStart.name))
         = [j \in DOMAIN ends |-> <<ends[j].name, ends[j].count>>]

\* The validated records of the 12 files.
ValidatedRecords == TotalTrips(SubSeq(allData, 1, NFiles), 1)

\* C4. Synthetic fallback: after initialisation the cache holds the synthetic
\* demonstration data if and only if the 12 files gave no validated record.
C4_SyntheticIffNoRecords ==
    pc = "ready" => (SyntheticInCache <=> ValidatedRecords = 0)

----------------------------------------------------------------------------
(***************************************************************************)
(* Properties of the derived view (Spec, SpecCap).                         *)
(***************************************************************************)
\* The filter cell updateVis reads.
CurCell == stationAgg[selectedMember][selectedMonthKey]
CurRoutes == endRoutes[selectedMember][selectedMonthKey]

CellTotal(cell, i) == cell[i].start + cell[i].end
NodePos(ns, name) == CHOOSE k \in DOMAIN ns : ns[k].name = name

NodeCapHolds(cell, kept) ==
    /\ Len(kept) <= 60
    /\ \A k \in 1..(Len(kept) - 1) : kept[k].total >= kept[k + 1].total
    /\ \A k \in DOMAIN kept :
          /\ StationIndex(cell, kept[k].name) # 0
          /\ kept[k].total = CellTotal(cell, StationIndex(cell, kept[k].name))
    /\ \A i \in DOMAIN cell :
          cell[i].name \notin NodeNames(kept) =>
              \A k \in DOMAIN kept : CellTotal(cell, i) <= kept[k].total

\* C5. Node cap: for every filter cell the kept node set has at most 60
\* stations of the cell, is listed in non-increasing order of total = start
\* + end, and every station of the cell that is not kept has a total less
\* than or equal to the total of every kept station; the nodes of the view
\* are the kept set of the selected cell.
C5_NodeCap ==
    pc = "ready" =>
        /\ \A mem \in MemberKeys : \A mk \in MonthKeys :
              NodeCapHolds(stationAgg[mem][mk], KeptNodes(stationAgg[mem][mk]))
        /\ NodeCapHolds(CurCell, nodes)

\* The selected cell has more than 60 stations and the view keeps 60.
C5_Witness ==
    /\ pc = "ready"
    /\ Len(CurCell) > MAX_NODES
    /\ Len(nodes) = MAX_NODES
    /\ \E i \in DOMAIN CurCell : CurCell[i].name \notin NodeNames(nodes)

\* C6 as claimed. Node tie-break: of two stations of the selected cell with
\* the same total, the one with the smaller name is ranked first, and is the
\* one kept when only one of them is kept.
C6_TieByName ==
    pc = "ready" =>
        \A i, j \in DOMAIN CurCell :
            (CellTotal(CurCell, i) = CellTotal(CurCell, j) /\ CurCell[i].name < CurCell[j].name
             /\ CurCell[j].name \in NodeNames(nodes))
            => /\ CurCell[i].name \in NodeNames(nodes)
               /\ NodePos(nodes, CurCell[i].name) < NodePos(nodes, CurCell[j].name)

\* C6 as amended. Of two stations of the selected cell with the same total,
\* the one the trip stream of the cell reached first (the one inserted first
\* into the station map of the cell) is ranked first, and is the one kept
\* when only one of them is kept, whatever their names.
C6_TieByEncounter ==
    pc = "ready" =>
        \A i, j \in DOMAIN CurCell :
            (CellTotal(CurCell, i) = CellTotal(CurCell, j) /\ i < j
             /\ CurCell[j].name \in NodeNames(nodes))
            => /\ CurCell[i].name \in NodeNames(nodes)
               /\ NodePos(nodes, CurCell[i].name) < NodePos(nodes, CurCell[j].name)

\* At the cap boundary a station is kept and a station of the same total
\* with a smaller name, reached later, is not.
C6_Witness ==
    /\ pc = "ready"
    /\ Len(CurCell) > MAX_NODES
    /\ \E i, j \in DOMAIN CurCell :
          /\ i < j
          /\ CellTotal(CurCell, i) = CellTotal(CurCell, j)
          /\ CurCell[j].name < CurCell[i].name
          /\ CurCell[i].name \in NodeNames(nodes)
          /\ CurCell[j].name \notin NodeNames(nodes)

\* The destinations the links of `raw` give the source s.
CandTargets(raw, s) == {raw[i].target : i \in {k \in DOMAIN raw : raw[k].source = s}}
\* The destinations of a route map, and the count of one of them.
Dests(m) == {m[i][1] : i \in DOMAIN m}
CountOf(m, t) == m[RouteIndex(m, t)][2]
Min(a, b) == IF a < b THEN a ELSE b

\* Destination u comes before destination t in the ranking of the route map
\* m: a higher count, or the same count and an earlier first trip.
Above(m, u, t) ==
    \/ CountOf(m, u) > CountOf(m, t)
    \/ CountOf(m, u) = CountOf(m, t) /\ RouteIndex(m, u) < RouteIndex(m, t)

\* The links of `raw` from s carry the counts of the route map m.
ValuesMatch(raw, s, m) ==
    \A i \in DOMAIN raw : raw[i].source = s => raw[i].value = CountOf(m, raw[i].target)

TopAmongKept(m, cands, keptDests) ==
    /\ cands \subseteq keptDests
    /\ Cardinality(cands) = Min(5, Cardinality(keptDests))
    /\ \A t \in cands : \A u \in keptDests \ cands : CountOf(m, t) >= CountOf(m, u)

\* C7 as claimed. Overview edge candidates: in overview mode the candidate
\* edges from a kept node s go to exactly the 5 highest-count destinations
\* among the destinations of s that are kept nodes (to all of them when
\* fewer than 5 are kept).
C7_TopFiveAmongKept ==
    (pc = "ready" /\ ~isDetail) =>
        \A s \in NodeNames(nodes) :
            TopAmongKept(RoutesOf(CurRoutes, s), CandTargets(linksRaw, s),
                         Dests(RoutesOf(CurRoutes, s)) \cap NodeNames(nodes))

KeptAmongTop(m, cands, kept) ==
    cands = {t \in Dests(m) \cap kept : Cardinality({u \in Dests(m) : Above(m, u, t)}) < 5}

\* C7 as amended. In overview mode the candidate edges from a kept node s go
\* to exactly those of the 5 highest-count destinations of s (equal counts
\* in the order of their first trip) that are kept nodes, each with its
\* count: a destination outside the kept set does use up one of the 5 slots.
C7_KeptAmongTopFive ==
    (pc = "ready" /\ ~isDetail) =>
        \A s \in NodeNames(nodes) :
            /\ KeptAmongTop(RoutesOf(CurRoutes, s), CandTargets(linksRaw, s), NodeNames(nodes))
            /\ ValuesMatch(linksRaw, s, RoutesOf(CurRoutes, s))

\* A kept node has 5 kept destinations or more and fewer than 5 candidate
\* edges: one of its 5 highest-count destinations is outside the kept set.
C7_Witness ==
    /\ pc = "ready"
    /\ ~isDetail
    /\ \E s \in NodeNames(nodes) :
          /\ Cardinality(Dests(RoutesOf(CurRoutes, s)) \cap NodeNames(nodes)) >= 5
          /\ Cardinality(CandTargets(linksRaw, s)) < 5
          /\ CandTargets(linksRaw, s) # {}

RawValues == {linksRaw[i].value : i \in DOMAIN linksRaw}
AtLeastThreshold == SelectSeq(linksRaw, LAMBDA l : l.value >= minRouteCount)

\* C9 as claimed. Nearest-rank threshold: with candidate edges, the threshold
\* count is the weight of some candidate edge, and exactly the edges with a
\* weight strictly below it are dropped (the overview, where the threshold
\* applies).
C9_NearestRank ==
    (pc = "ready" /\ ~isDetail /\ linksRaw # <<>>) =>
        /\ minRouteCount \in RawValues
        /\ linksView = AtLeastThreshold

\* The floor of the linear interpolation between the values next to the rank
\* (n - 1) * percent / 100 of the ascending values.
Interpolated(vals, percent) ==
    LET i100 == (Len(vals) - 1) * percent
        lower == vals[i100 \div 100 + 1]
        upper == vals[IF i100 % 100 = 0 THEN i100 \div 100 + 1 ELSE i100 \div 100 + 2]
    IN  lower + ((upper - lower) * (i100 % 100)) \div 100

\* C9 as amended. With candidate edges, the threshold count is the floor of
\* the linear interpolation between the two ascending-sorted candidate
\* weights next to the rank (n - 1) * p / 100 (the weight at that rank when
\* the rank is whole), so it lies between the smallest and the largest
\* candidate weight but need not be the weight of a candidate edge; in
\* overview mode exactly the edges with a weight strictly below it are
\* dropped, and in detail mode it is not applied.
C9_InterpolatedThreshold ==
    (pc = "ready" /\ linksRaw # <<>>) =>
        /\ minRouteCount
             = Interpolated(SortAsc([i \in DOMAIN linksRaw |-> linksRaw[i].value]), minRoutePercent)
        /\ \A v \in RawValues : (\A u \in RawValues : v <= u) => v <= minRouteCount
        /\ \A v \in RawValues : (\A u \in RawValues : v >= u) => minRouteCount <= v
        /\ ~isDetail => linksView = AtLeastThreshold
        /\ isDetail => linksView = SelectSeq(linksRaw, LAMBDA l : l.source = selectedStation)

\* In overview mode the threshold is no candidate weight and drops some of
\* the edges.
C9_Witness ==
    /\ pc = "ready"
    /\ ~isDetail
    /\ linksRaw # <<>>
    /\ minRouteCount \notin RawValues
    /\ Len(linksView) > 0
    /\ Len(linksView) < Len(linksRaw)

\* The destinations of the route map m by descending count, equal counts by
\* ascending name.
ByWeightThenName(m) ==
    SortSeq(m, LAMBDA a, b : a[2] > b[2] \/ (a[2] = b[2] /\ a[1] < b[1]))

\* C10. Detail completeness: in Detail(s) the visible edge list has at most
\* 5 edges, all from s, and is the first 5 entries of the destinations of s
\* by descending weight, ties by ascending destination name.
C10_DetailTopFive ==
    (pc = "ready" /\ isDetail /\ selectedStation # null) =>
        /\ Len(linksView) <= 5
        /\ \A i \in DOMAIN linksView : linksView[i].source = selectedStation
        /\ linksView
             = [i \in DOMAIN Slice(ByWeightThenName(RoutesOf(CurRoutes, selectedStation)), 5) |->
                   [source |-> selectedStation,
                    target |-> ByWeightThenName(RoutesOf(CurRoutes, selectedStation))[i][1],
                    value |-> ByWeightThenName(RoutesOf(CurRoutes, selectedStation))[i][2]]]

\* What updateVis would bind in the present state with the percentile p and
\* the hide flag h.
ViewWith(p, h) ==
    Derive(stationAgg, endRoutes, selectedMember, selectedMonthKey,
           isDetail, selectedStation, p, h)

SameView(d) == d.nodesVis = nodesVis /\ d.linksView = linksView

C11_SameForAllSliders ==
    (pc = "ready" /\ isDetail /\ selectedStation # null) =>
        \A p \in Percents : \A h \in BOOLEAN : SameView(ViewWith(p, h))

\* C11. Detail ignores the sliders: for a fixed cache, member filter, month
\* filter and selected station s, the visible nodes and the visible edges of
\* Detail(s) are the same for every percentile and for both values of the
\* hide flag; a move of the percentile slider in Detail(s) leaves them as
\* they are.
C11_DetailIgnoresSliders ==
    /\ []C11_SameForAllSliders
    /\ [][ (pc = "ready" /\ isDetail /\ isDetail' /\ selectedStation' = selectedStation
            /\ UNCHANGED <<cacheVars, selectedMember, selectedMonthKey>>)
           => (nodesVis' = nodesVis /\ linksView' = linksView) ]_vars

\* Detail(s) with the hide flag set and the slider at 100: an edge below the
\* threshold is shown and a node that no shown edge touches is visible.
C11_Witness ==
    /\ pc = "ready"
    /\ isDetail
    /\ hideLowNodes
    /\ minRoutePercent = 100
    /\ \E i \in DOMAIN linksView : linksView[i].value < minRouteCount
    /\ \E n \in NodeNames(nodesVis) : n \notin LinkEnds(linksView)

\* C12. Isolated-node pruning: in overview mode with the hide flag set, every
\* visible node is the source or the target of a surviving edge and every
\* surviving edge has both endpoints visible; with the flag cleared the
\* visible nodes are the whole kept set.
C12_IsolatedNodePruning ==
    (pc = "ready" /\ ~isDetail) =>
        /\ hideLowNodes =>
              /\ \A n \in NodeNames(nodesVis) : n \in LinkEnds(linksView)
              /\ \A i \in DOMAIN linksView :
                    /\ linksView[i].source \in NodeNames(nodesVis)
                    /\ linksView[i].target \in NodeNames(nodesVis)
              /\ \A i \in DOMAIN linksView : linksView[i].value >= minRouteCount
              /\ NodeNames(nodesVis) \subseteq NodeNames(nodes)
        /\ ~hideLowNodes => nodesVis = nodes

\* The hide flag has removed a kept node and left others.
C12_Witness ==
    /\ pc = "ready"
    /\ ~isDetail
    /\ hideLowNodes
    /\ nodesVis # <<>>
    /\ Len(nodesVis) < Len(nodes)

\* The stations a click can select: the circles of the view and the rows of
\* the table.
Selectable ==
    NodeNames(nodesVis) \cup NodeNames(TableRows(CurCell))

\* C13. View state machine exits: from Detail(s) a click on the back button,
\* a change of the by-month box, an input of the month slider and a change
\* of the member radio each lead to Overview with selectedStation = null;
\* Overview always has selectedStation = null, every Detail(s) has a station
\* and runs the handlers, and Detail is entered only by selecting a station.
C13_DetailExits ==
    /\ [](isDetail => (pc = "ready" /\ selectedStation # null))
    /\ [](~isDetail => selectedStation = null)
    /\ [][ (isDetail /\ (\/ BackClick
                         \/ byMonthChecked' # byMonthChecked
                         \/ monthSliderValue' # monthSliderValue
                         \/ selectedMonthKey' # selectedMonthKey
                         \/ selectedMember' # selectedMember))
           => (~isDetail' /\ selectedStation' = null) ]_vars
    /\ [][ (~isDetail /\ isDetail')
           => (selectedStation' # null /\ selectedStation' \in Selectable) ]_vars

\* A Detail(s) in which the four events are all possible, reached after a
\* filter change had led back to Overview.
C13_Witness ==
    /\ pc = "ready"
    /\ isDetail
    /\ selectedStation # null
    /\ byMonthChecked
    /\ selectedMember # "All"

----------------------------------------------------------------------------
(***************************************************************************)
(* Station geometry.                                                       *)
(***************************************************************************)
InBox(r) ==
    /\ minLat <= r.lat /\ r.lat <= maxLat
    /\ minLng <= r.lng /\ r.lng <= maxLng

NoEntryFor(name) ==
    /\ ~MapHas(stationPos, name)
    /\ ~MapHas(stationPosNorm, normalizeName(name))

ValidRecords(arr, trimmed) ==
    LET named == [i \in DOMAIN arr |->
                     [arr[i] EXCEPT !.name = IF trimmed THEN Trim(@) ELSE @]]
    IN  SelectSeq(named, LAMBDA r : r.name # <<>> /\ r.finite)

Writes == ValidRecords(gbfs, TRUE) \o ValidRecords(geocodes, FALSE)

FeedRecords == ValidRecords(gbfs, TRUE)

Max(S) == CHOOSE m \in S : \A x \in S : x <= m

SameCoord(r, w) == r.lat = w.lat /\ r.lng = w.lng

\* C15 (as stated): a name with an entry in the feed resolves to the
\* coordinate of the feed, whatever the local list holds.
C15_FeedExactWins ==
    \A name \in GeoNames :
        LET ix == {i \in DOMAIN FeedRecords : FeedRecords[i].name = name}
        IN  ix # {} => SameCoord(getStationLatLng(name), FeedRecords[Max(ix)])

\* C15 (amended): a name resolves to the coordinate stored last under that
\* exact name, by the feed or by the local list, which is loaded after the
\* feed; without such an entry, to the coordinate stored last under the
\* normalized form of the name by either list; without that, to the
\* fallback.
C15_LastWriteWins ==
    \A name \in GeoNames :
        LET exact == {i \in DOMAIN Writes : Writes[i].name = name}
            norm == {i \in DOMAIN Writes :
                        normalizeName(Writes[i].name) = normalizeName(name)}
            r == getStationLatLng(name)
        IN  IF exact # {} THEN SameCoord(r, Writes[Max(exact)])
            ELSE IF norm # {} THEN SameCoord(r, Writes[Max(norm)])
            ELSE r = Fallback(name)

\* A name with an entry in the feed and a different one in the local list
\* has been resolved to the coordinate of the local list.
C15_Witness ==
    /\ geoPc = "done"
    /\ latLng # <<>>
    /\ \E i \in DOMAIN gbfs : \E j \in DOMAIN geocodes :
          /\ gbfs[i].finite /\ geocodes[j].finite
          /\ gbfs[i].name = latLng[1].name
          /\ geocodes[j].name = latLng[1].name
          /\ ~SameCoord(gbfs[i], geocodes[j])
          /\ SameCoord(latLng[1], geocodes[j])

----------------------------------------------------------------------------
(***************************************************************************)
(* The 3D view and the layout.                                             *)
(***************************************************************************)
\* A step of the rotation drag: the flag of the drag changes, or the
\* rotation changes while the 3D mode stays as it is.
RotationStep ==
    \/ rotating' # rotating
    \/ (<<yaw, pitch>>' # <<yaw, pitch>> /\ mode3d' = mode3d)

\* C16: a step of the rotation drag (pointerdown, pointermove, pointerup)
\* changes nothing but the flag of the drag, yaw and pitch: the node
\* objects keep x, y, fx and fy, the visible nodes and links, the filters,
\* the view mode and the 3D mode stay as they are; and pitch stays within
\* the clamp.
C16_RotationFrame ==
    /\ [][RotationStep =>
            UNCHANGED <<layout, derivedVars, ctlVars, cacheVars, mode3d>>]_vars
    /\ [](0 - maxPitch <= pitch /\ pitch <= maxPitch)

\* The view is rotated up to the clamp while a station is pinned and
\* another has been moved by the simulation.
C16_Witness ==
    /\ mode3d /\ rotating
    /\ yaw # 0 /\ pitch = maxPitch
    /\ \E i \in DOMAIN layout : layout[i].pin = <<700, 450>> /\ layout[i].x = 700
    /\ \E j \in DOMAIN layout :
          /\ layout[j].pin = <<>>
          /\ layout[j].x = Settled(j)[1]
          /\ layout[j].x # Phyllotaxis[j][1]

CircleOf(d, name) == d.circles[CHOOSE i \in DOMAIN d.circles : d.circles[i].name = name]

\* C17: in the 3D mode, for every line redraw3d draws whose two ends have
\* the same camera depth, the factor on its stroke width is the factor on
\* the radius of each of its end circles.
C17_ScaleConsistency ==
    (pc = "ready" /\ mode3d) =>
        LET d == redraw3d(layout, linksView, yaw, pitch)
        IN  \A j \in DOMAIN d.lines :
                LET cs == CircleOf(d, d.lines[j].source)
                    ct == CircleOf(d, d.lines[j].target)
                IN  cs.zCam = ct.zCam =>
                        /\ d.lines[j].factor = cs.factor
                        /\ d.lines[j].factor = ct.factor

\* In a rotated 3D view a line whose ends have the same camera depth is
\* drawn with a factor other than 1, and another line has ends of
\* different depths and a factor that is the factor of neither end.
C17_Witness ==
    /\ pc = "ready" /\ mode3d /\ yaw # 0 /\ pitch # 0
    /\ LET d == redraw3d(layout, linksView, yaw, pitch)
       IN  /\ \E j \in DOMAIN d.lines :
                 /\ CircleOf(d, d.lines[j].source).zCam = CircleOf(d, d.lines[j].target).zCam
                 /\ d.lines[j].factor # <<1, 1>>
                 /\ d.lines[j].factor = CircleOf(d, d.lines[j].source).factor
           /\ \E j \in DOMAIN d.lines :
                 /\ d.lines[j].factor # CircleOf(d, d.lines[j].source).factor
                 /\ d.lines[j].factor # CircleOf(d, d.lines[j].target).factor

\* C18 (as stated): in a step that changes the set of visible stations,
\* every station visible before and after keeps its position (x, y).
C18_SurvivorsKeepPosition ==
    [][(pc = "ready" /\ NodeNames(nodesVis') # NodeNames(nodesVis)) =>
          \A i \in DOMAIN layout : \A j \in DOMAIN layout' :
              layout'[j].name = layout[i].name =>
                  (layout'[j].x = layout[i].x /\ layout'[j].y = layout[i].y)]_vars

\* C19 (as stated): a pinned station that is still visible stays pinned at
\* the same point through every step of a control, of the 3D toggle and of
\* the rotation drag.
C19_PinPersists ==
    [][(<<ctlVars, rotVars>>' # <<ctlVars, rotVars>>) =>
          \A i \in DOMAIN layout : \A j \in DOMAIN layout' :
              (layout[i].pin # <<>> /\ layout'[j].name = layout[i].name) =>
                  layout'[j].pin = layout[i].pin]_vars

\* C20: once buildCaches has returned, no step changes allData, a count of
\* stationAgg or endRoutes or the order of a map; the kept nodes of a step
\* are those of the cell the filters select in the unchanged cache.
C20_CacheImmutable ==
    /\ [][pc = "ready" => UNCHANGED <<pc, allData, stationAgg, endRoutes>>]_vars
    /\ [](pc = "ready" => nodes = KeptNodes(stationAgg[selectedMember][selectedMonthKey]))

\* In the detail view of a station whose route map is not in the order of
\* the counts, under a member filter, in a rotated 3D view with a pinned
\* station.
C20_Witness ==
    /\ pc = "ready" /\ isDetail /\ selectedStation = 1
    /\ selectedMember = "Annual"
    /\ RoutesOf(endRoutes["Annual"]["All"], 1) # RankedRoutes(RoutesOf(endRoutes["Annual"]["All"], 1))
    /\ mode3d /\ yaw # 0
    /\ \E i \in DOMAIN layout : layout[i].pin # <<>>
----------------------------------------------------------------------------
(***************************************************************************)
(* The table, the view state and the draw order.                           *)
(***************************************************************************)
\* C21 (as stated): whenever the visible node list or the visible link
\* list is empty after a derivation, the table holds the no-data row and no
\* station row.
C21_EmptyReportsNoData ==
    (pc = "ready" /\ (nodesVis = <<>> \/ linksView = <<>>)) =>
        (topStartTable.noData /\ topStartTable.rows = <<>>)

\* The pitch a pointermove of vertical difference dy leaves
Clamped(dy) ==
    IF pitch + dy * ROT_SENS > maxPitch THEN maxPitch
    ELSE IF pitch + dy * ROT_SENS < 0 - maxPitch THEN 0 - maxPitch
    ELSE pitch + dy * ROT_SENS

\* C22: in every state pitch lies within -0.88 * pi/2 .. 0.88 * pi/2; a
\* step that changes the rotation without a change of the 3D mode puts
\* pitch to the clamped sum and moves yaw by the whole of its difference,
\* which is not clamped.
C22_PitchClamp ==
    /\ [](0 - maxPitch <= pitch /\ pitch <= maxPitch)
    /\ [][(<<yaw, pitch>>' # <<yaw, pitch>> /\ mode3d' = mode3d) =>
            \E d \in PointerDeltas :
                /\ yaw' = yaw - d[1] * ROT_SENS
                /\ pitch' = Clamped(d[2])]_vars

\* One pointermove whose difference is larger than the clamp has left pitch
\* on the lower clamp and yaw beyond the range of the clamp.
C22_Witness ==
    /\ rotating
    /\ pitch = 0 - maxPitch
    /\ yaw > maxPitch

\* d._zCam of the node object of a station, as the last redraw3d wrote it
zCamOf(name) ==
    stationCircles[CHOOSE i \in DOMAIN stationCircles : stationCircles[i].name = name].zCam[1]

\* Element a is farther from the camera than element b, with every point of
\* it (a line reaches from the depth of one end to the depth of the other).
Farther(a, b) == \A m \in a.of : \A n \in b.of : zCamOf(m) > zCamOf(n)

\* A step of the simulation: the pins stay and every node is on its pin or
\* where the forces put it.
TickStep ==
    /\ UNCHANGED <<ctlVars, rotVars, derivedVars>>
    /\ DOMAIN layout' = DOMAIN layout
    /\ \A i \in DOMAIN layout :
          /\ layout'[i].pin = layout[i].pin
          /\ <<layout'[i].x, layout'[i].y>>
               = IF layout[i].pin # <<>> THEN layout[i].pin ELSE Settled(i)

\* A step of the rotation drag that turns the view
TurnStep == <<yaw, pitch>>' # <<yaw, pitch>> /\ mode3d' = mode3d

\* A run of redraw3d in the 3D mode: after a tick and after a pointermove
Reprojection == pc = "ready" /\ mode3d /\ (TickStep \/ TurnStep)

BackToFront(elements) ==
    \A i, j \in DOMAIN elements : Farther(elements[i], elements[j]) => i < j

AllBackToFront == BackToFront(renderedElements)

CirclesBackToFront ==
    \A i, j \in DOMAIN stationCircles :
        stationCircles[i].zCam[1] > stationCircles[j].zCam[1] => i < j

\* C23 (as stated): after every re-projection in the 3D mode the elements
\* of the drawing, circles and lines alike, are in back-to-front order: an
\* element farther from the camera comes before every nearer element.
C23_AllBackToFront == [][Reprojection => AllBackToFront']_vars

\* The part of C23 that the circles take: after every re-projection in the
\* 3D mode the circles are in back-to-front order among themselves.
C23_CirclesSorted == [][Reprojection => CirclesBackToFront']_vars

CircleNames == [i \in DOMAIN stationCircles |-> stationCircles[i].name]

\* C24: whenever the 3D mode is off, the circles are in the document in the
\* order of the derived node list, whatever was done before.
C24_InsertionOrderIn2D ==
    (pc = "ready" /\ ~mode3d) => CircleNames = [i \in DOMAIN nodesVis |-> nodesVis[i].name]

\* The 3D mode was switched off during a rotation drag (the drag goes on),
\* the view was redrawn since, and the three circles are in the order of
\* the node list.
C24_Witness ==
    /\ pc = "ready" /\ ~mode3d /\ rotating
    /\ Len(stationCircles) = 3
    /\ \A i \in DOMAIN stationCircles : stationCircles[i].zCam = <<0>>
    /\ CircleNames = [i \in DOMAIN nodesVis |-> nodesVis[i].name]

\* C25: in every state isDetail holds exactly when selectedStation is not
\* null; a step that changes one of the two fields leaves them as
\* goToDetail writes them for a station that can be clicked (flag set,
\* that station stored) or as exitDetailView writes them from the detail
\* view (flag cleared, station null).
C25_ViewStateConsistent ==
    /\ [](isDetail <=> selectedStation # null)
    /\ [][(isDetail' # isDetail \/ selectedStation' # selectedStation) =>
            \/ (isDetail' /\ selectedStation' \in Selectable)
            \/ (isDetail /\ ~isDetail' /\ selectedStation' = null)]_vars

\* Detail(3) entered with the hide flag set and the slider moved, the
\* month filter on.
C25_Witness ==
    /\ pc = "ready" /\ isDetail /\ selectedStation = 3
    /\ hideLowNodes /\ byMonthChecked /\ minRoutePercent # 0

\* C26: in the detail view an input of the percentile slider and a change
\* of the palette box leave the view mode and the selected station as they
\* are; a change of the hide box and a change of the 3D box lead to the
\* overview; and a step from the detail view to the overview changes the
\* by-month box, the month slider, the member radio, the hide box or the
\* 3D box, or is the click on the back button, which changes no control
\* and no rotation.
C26_EventsKeepingDetail ==
    [][(pc = "ready" /\ isDetail) =>
          /\ (minRoutePercent' # minRoutePercent \/ colorBlind' # colorBlind)
                => (isDetail' /\ selectedStation' = selectedStation)
          /\ (hideLowNodes' # hideLowNodes \/ mode3d' # mode3d)
                => (~isDetail' /\ selectedStation' = null)
          /\ ~isDetail' =>
                \/ byMonthChecked' # byMonthChecked
                \/ monthSliderValue' # monthSliderValue
                \/ selectedMember' # selectedMember
                \/ hideLowNodes' # hideLowNodes
                \/ mode3d' # mode3d
                \/ UNCHANGED <<cacheVars, selectedMonthKey, minRoutePercent, colorBlind,
                               rotVars>>]_vars

\* A detail view in the 3D mode with the palette box checked, the slider
\* at 100 and a rotation drag going on.
C26_Witness ==
    /\ pc = "ready" /\ isDetail /\ selectedStation # null
    /\ colorBlind /\ minRoutePercent = 100
    /\ mode3d /\ rotating /\ yaw # 0

\* The thresholds of all percentiles lie within the ascending values vals.
ThresholdsWithin(vals) ==
    \A p \in 0..100 :
        /\ vals[1] <= quantileSortedFloor(vals, p)
        /\ quantileSortedFloor(vals, p) <= vals[Len(vals)]

\* C27: in the overview with candidate links, the threshold of every
\* percentile 0..100 is at most the largest candidate weight; the threshold
\* in force is, and a link of the largest weight is among the visible links,
\* with the hide flag set or not.
C27_ThresholdKeepsAnEdge ==
    (pc = "ready" /\ ~isDetail /\ linksRaw # <<>>) =>
        /\ ThresholdsWithin(SortAsc([i \in DOMAIN linksRaw |-> linksRaw[i].value]))
        /\ \A v \in RawValues : (\A u \in RawValues : u <= v) =>
               /\ minRouteCount <= v
               /\ \E i \in DOMAIN linksView : linksView[i].value = v

\* The overview with the hide flag set and the slider at 100: the
\* threshold is the largest weight, links are dropped and one stays.
C27_Witness ==
    /\ pc = "ready" /\ ~isDetail /\ hideLowNodes
    /\ minRoutePercent = 100
    /\ \A v \in RawValues : v <= minRouteCount
    /\ Len(linksView) >= 1
    /\ Len(linksView) < Len(linksRaw)

\* C28: after a derivation, in the overview and in the detail view, every
\* visible link has its source and its target among the kept nodes, which
\* are 60 at most, and a positive weight; in Detail(s) every visible link
\* starts at s, and there is no visible link when s is not a kept node.
C28_EdgeEndsAreKept ==
    pc = "ready" =>
        /\ Len(nodes) <= MAX_NODES
        /\ \A i \in DOMAIN linksView :
              /\ linksView[i].source \in NodeNames(nodes)
              /\ linksView[i].target \in NodeNames(nodes)
              /\ linksView[i].value > 0
        /\ isDetail =>
              /\ \A i \in DOMAIN linksView : linksView[i].source = selectedStation
              /\ selectedStation \notin NodeNames(nodes) => linksView = <<>>

\* Detail(s) of a station chosen from the table that has a route and is
\* not among the 60 kept nodes: no link is visible.
C28_Witness ==
    /\ pc = "ready" /\ isDetail
    /\ selectedStation \in NodeNames(TableRows(CurCell))
    /\ selectedStation \notin NodeNames(nodes)
    /\ RoutesOf(CurRoutes, selectedStation) # <<>>
    /\ Len(nodes) = MAX_NODES
    /\ linksView = <<>>

\* C29 (as stated): in every state with the 3D mode off, yaw and pitch are
\* 0; a change of the 3D box puts both to 0, and no step changes them
\* while the 3D mode is off and stays off.
C29_RotationInertIn2D ==
    /\ [](~mode3d => (yaw = 0 /\ pitch = 0))
    /\ [][mode3d' # mode3d => (yaw' = 0 /\ pitch' = 0)]_vars
    /\ [][(~mode3d /\ ~mode3d') => UNCHANGED <<yaw, pitch>>]_vars

----------------------------------------------------------------------------
(***************************************************************************)
(* Conservation in the cache.                                              *)
(***************************************************************************)
SumStart(cell) == SumOver([i \in DOMAIN cell |-> cell[i].start], DOMAIN cell)
SumEnd(cell) == SumOver([i \in DOMAIN cell |-> cell[i].end], DOMAIN cell)

\* The sum of the counts of the route map m
SumCounts(m) == SumOver([j \in DOMAIN m |-> m[j][2]], DOMAIN m)

\* The sum of all route counts of a cell
SumRoutes(routes) ==
    SumOver([i \in DOMAIN routes |-> SumCounts(routes[i][2])], DOMAIN routes)

\* A processed trip of type Other of the month mk starts or ends at s.
OtherTouches(s, mk) ==
    \E i \in DOMAIN Processed :
        /\ Processed[i][2].member_type = "Other"
        /\ mk = "All" \/ mk = Processed[i][1]
        /\ Processed[i][2].start_station_name = s \/ Processed[i][2].end_station_name = s

TypedStart(s, mk) ==
    StartCount(stationAgg["Annual"][mk], s) + StartCount(stationAgg["Casual"][mk], s)

TypedEnd(s, mk) ==
    EndCount(stationAgg["Annual"][mk], s) + EndCount(stationAgg["Casual"][mk], s)

\* C30: in every cell the start counts, the end counts and the route
\* counts have the same sum, and the start count of a station is the sum of
\* the counts of its routes; for every station and month the start count
\* and the end count of (All, month) are at least the sums of those of
\* (Annual, month) and (Casual, month), and both are equal to them exactly
\* when no trip of type Other of the month starts or ends at the station.
C30_CellConservation ==
    /\ \A mem \in MemberKeys : \A mk \in MonthKeys :
          /\ SumStart(stationAgg[mem][mk]) = SumEnd(stationAgg[mem][mk])
          /\ SumStart(stationAgg[mem][mk]) = SumRoutes(endRoutes[mem][mk])
          /\ \A s \in StationsSeen :
                StartCount(stationAgg[mem][mk], s) = SumCounts(RoutesOf(endRoutes[mem][mk], s))
    /\ \A mk \in MonthKeys : \A s \in StationsSeen :
          /\ StartCount(stationAgg["All"][mk], s) >= TypedStart(s, mk)
          /\ EndCount(stationAgg["All"][mk], s) >= TypedEnd(s, mk)
          /\ (/\ StartCount(stationAgg["All"][mk], s) = TypedStart(s, mk)
              /\ EndCount(stationAgg["All"][mk], s) = TypedEnd(s, mk))
             <=> ~OtherTouches(s, mk)

\* Three trips are in the cache, one of them of type Other and two on the
\* same route: a station has more starts under All than under the two
\* types together, and another station has the same counts under both.
C30_Witness ==
    /\ pc = "ready" /\ bi = 3
    /\ \E s \in StationsSeen : \E e \in StationsSeen :
          RouteCount(endRoutes["All"]["All"], s, e) >= 2
    /\ \E s \in StationsSeen :
          StartCount(stationAgg["All"]["All"], s) > TypedStart(s, "All")
    /\ \E t \in StationsSeen :
          /\ ~OtherTouches(t, "All")
          /\ EndCount(stationAgg["All"]["All"], t) = TypedEnd(t, "All")
          /\ EndCount(stationAgg["All"]["All"], t) >= 1
====
